---- MODULE Spec2Model ----
(***************************************************************************)
(* A model of the xelis-blockchain core: BlockDAG ordering (blockdag.rs),  *)
(* the cached verification state (cached_state.rs) and the Ping gossip     *)
(* (p2p/packet/ping.rs).  Each subsystem has its own specification         *)
(* (SpecDag, SpecCache, SpecPing) over its own variables, and so has the   *)
(* serializer with the packet envelope (SpecWire) and the terminal prompt  *)
(* (prompt/mod.rs, SpecPrompt); the variables of the other subsystems stay *)
(* at their initial values: an action of one subsystem leaves outsideDag / *)
(* outsideCache / outsidePing / outsideWire / outsidePrompt unchanged.     *)
(* SpecHandlers runs two update_peer calls on one Peer concurrently.       *)
(***************************************************************************)
EXTENDS Integers, Sequences, FiniteSets

VARIABLES
    \* ---- BlockDAG ordering: the call in progress and what it returned
    dagOp,        \* which blockdag.rs function was called ("idle" before a call)
    dagTips,      \* the tips argument
    dagScores,    \* the scores argument of sort_descending_by_cumulative_difficulty
    dagProvider,  \* the storage snapshot: hash -> result of the provider lookup
    dagResult,    \* what the call returned
    dagLookups,   \* the provider lookups the call made, in order
    \* ---- Cached verification state (CachedState) and the storage it commits to
    topoheight,   \* CachedState.topoheight: the topoheight the state is based on
    balances,     \* CachedState.balances: account -> Updatable<CachedAccount>
    nonces,       \* CachedState.nonces: account -> Updatable<u64>
    snapshot,     \* what the Storage held when the cache was created (read by hydration)
    persisted,    \* what the Storage writers have persisted
    phase,        \* "staging" until apply_updates has run, then "committed"
    applyCalls,   \* the Storage calls apply_updates issued, in order
    applyAnswers, \* what the Storage answered to each of them
    applyResult,  \* what apply_updates returned
    applyTopoheight, \* the topoheight apply_updates was given
    lastUpdate,   \* history: the ciphertext of the latest update_balance per (account, asset)
    lastNonce,    \* history: the nonce of the latest update_account_nonce per account
    \* ---- Ping gossip: one Peer and the update_peer call in progress
    peerState,    \* the Peer: its cached chain state, its addresses and its peer-set
    pingOp,       \* "update_peer" while a call's outcome is held, "idle" otherwise
    pingMsg,      \* the Ping the call was made on
    pingResult,   \* what the call returned
    \* ---- Serializer: one buffer, what was written to it and what a reader made of it
    wireOp,       \* "idle", "written" once a buffer is there, "read" once it was decoded
    wireKind,     \* which value the buffer was written from: "packet", "ping", "tips", ...
    wireValue,    \* the value that was written (<<>> for a buffer that was only received)
    wireBytes,    \* the buffer: a sequence of bytes
    wireTamper,   \* what happened to the buffer after the write: "none", "truncated", ...
    wireReader,   \* which reader decoded the buffer
    wireResult,   \* what the reader returned
    \* ---- Prompt: the State shared with the ioloop thread, the terminal, the callers
    has_exited,   \* State.has_exited
    raw_mode,     \* the terminal's raw mode (process-wide, held by crossterm)
    disabled,     \* how many times terminal::disable_raw_mode was executed
    prompt,       \* State.prompt: Option<String>
    user_input,   \* State.user_input: the line being typed
    mask_input,   \* State.mask_input
    prompt_sender,      \* State.prompt_sender: None, or Some(reader) whose oneshot Sender it holds
    oneshot,            \* reader -> the oneshot channel that reader created
    read_input_channel, \* Prompt.read_input_sender/receiver: cancel messages buffered in channel(1)
    read_input_lock,    \* the AsyncMutex around read_input_receiver: None, or Some(reader) holding it
    readers,      \* reader -> its read_input call: position, locals, what it returned
    ioloop,       \* position of the ioloop thread
    starter,      \* position of the Prompt::start call
    dropper,      \* position of the drop of the Prompt
    \* ---- Two concurrent update_peer calls on the Peer of peerState
    handlers,     \* handler -> its update_peer call: position, Ping, what it returned
    peers_lock    \* the Mutex of peer.get_peers(): None, or Some(handler) holding it

dagVars == <<dagOp, dagTips, dagScores, dagProvider, dagResult, dagLookups>>

cacheVars == <<topoheight, balances, nonces, snapshot, persisted, phase, applyCalls,
               applyAnswers, applyResult, applyTopoheight, lastUpdate, lastNonce>>

pingVars == <<peerState, pingOp, pingMsg, pingResult>>

wireVars == <<wireOp, wireKind, wireValue, wireBytes, wireTamper, wireReader, wireResult>>

terminalVars == <<has_exited, raw_mode, disabled>>

lineVars == <<prompt, user_input, mask_input>>

channelVars == <<prompt_sender, oneshot, read_input_channel, read_input_lock>>

callVars == <<readers, ioloop, starter, dropper>>

promptVars == <<terminalVars, lineVars, channelVars, callVars>>

handlerVars == <<handlers, peers_lock>>

\* What a BlockDAG step leaves alone, what a cache step leaves alone, what an
\* update_peer step leaves alone, what a serializer step leaves alone and what
\* a prompt step leaves alone
outsideDag == <<cacheVars, pingVars, wireVars, promptVars, handlerVars>>

outsideCache == <<dagVars, pingVars, wireVars, promptVars, handlerVars>>

outsidePing == <<dagVars, cacheVars, wireVars, promptVars, handlerVars>>

outsideWire == <<dagVars, cacheVars, pingVars, promptVars, handlerVars>>

outsidePrompt == <<dagVars, cacheVars, pingVars, wireVars, handlerVars>>

\* What a step of one of the two concurrent update_peer calls leaves alone
outsideHandlers == <<dagVars, cacheVars, wireVars, promptVars, pingOp, pingMsg, pingResult>>

vars == <<dagVars, cacheVars, pingVars, wireVars, promptVars, handlerVars>>

(***************************************************************************)
(* Bounds                                                                  *)
(***************************************************************************)
MaxHash == 2          \* hashes are HashOf(0) .. HashOf(MaxHash)
MaxTips == 3          \* longest tips / scores list
MaxDifficulty == 1    \* cumulative difficulties are 0 .. MaxDifficulty
MaxU64 == 2           \* stands for u64::MAX: heights are 0 .. MaxU64
MaxNonce == 1         \* nonces given to update_account_nonce are 0 .. MaxNonce
MaxTopoheight == 1    \* topoheights are 0 .. MaxTopoheight
MaxPeerList == 2      \* longest peer list of a Ping
P2P_PING_PEER_LIST_LIMIT == 1  \* the configured ceiling of a Ping's peer list (below MaxPeerList)
MaxBody == 1          \* the payloads other than Hash and Ping are 0 .. MaxBody
MaxItem == 1          \* short container buffers hold elements 0 .. MaxItem
MaxPrompt == 1        \* prompt messages are 1 .. MaxPrompt
MaxInput == 1         \* longest line the user types

(***************************************************************************)
(* Helpers                                                                 *)
(***************************************************************************)
Range(s) == {s[i] : i \in DOMAIN s}

Front(s) == SubSeq(s, 1, Len(s) - 1)

Last(s) == s[Len(s)]

SeqsUpTo(S, n) == UNION {[1..k -> S] : k \in 0..n}

Count(s, x) == Cardinality({i \in DOMAIN s : s[i] = x})

IsPermutationOf(s, t) ==
    /\ Len(s) = Len(t)
    /\ \A x \in Range(s) \cup Range(t) : Count(s, x) = Count(t, x)

MaxOf(S) == CHOOSE m \in S : \A x \in S : x <= m

MinOf(S) == CHOOSE m \in S : \A x \in S : m <= x

Reorderings(s) ==
    {[i \in DOMAIN s |-> s[p[i]]] :
        p \in {q \in [DOMAIN s -> DOMAIN s] : \A i, j \in DOMAIN s : q[i] = q[j] => i = j}}

(***************************************************************************)
(* Hash and Difficulty (xelis_common; consumed through their Ord            *)
(* instances).  A hash is a fixed-length byte string compared              *)
(* lexicographically; a difficulty is an unsigned integer.                 *)
(***************************************************************************)
HashOf(i) == <<i \div 2, i % 2>>

Hashes == {HashOf(i) : i \in 0..MaxHash}

Difficulties == 0..MaxDifficulty

Heights == 0..MaxU64

\* Ord::cmp on unsigned integers
U64Cmp(a, b) == IF a < b THEN "Less" ELSE IF a = b THEN "Equal" ELSE "Greater"

\* Ord::cmp on Hash: lexicographic over the bytes
RECURSIVE HashCmp(_, _)
HashCmp(a, b) ==
    IF a = <<>> THEN "Equal"
    ELSE IF Head(a) # Head(b) THEN U64Cmp(Head(a), Head(b))
    ELSE HashCmp(Tail(a), Tail(b))

(***************************************************************************)
(* blockdag.rs                                                             *)
(***************************************************************************)
\* Faulty variants of the closure: no tie-break on the hash; the lower hash first
ScoreCmpNoTieBreak(x, y) == U64Cmp(y[2], x[2])

ScoreCmpAscendingHash(x, y) ==
    IF x[2] # y[2] THEN U64Cmp(y[2], x[2]) ELSE HashCmp(x[1], y[1])

\* The closure given to sort_by: x = (a_hash, a), y = (b_hash, b)
ScoreCmp(x, y) ==
    IF x[2] # y[2] THEN U64Cmp(y[2], x[2]) ELSE HashCmp(y[1], x[1])

\* Vec::sort_by is a stable sort: here by insertion, an element going after
\* every element it does not compare Less to.
RECURSIVE InsertSorted(_, _)
InsertSorted(s, x) ==
    IF s = <<>> THEN <<x>>
    ELSE IF ScoreCmp(x, Head(s)) = "Less" THEN <<x>> \o s
    ELSE <<Head(s)>> \o InsertSorted(Tail(s), x)

RECURSIVE SortBy(_)
SortBy(s) == IF s = <<>> THEN <<>> ELSE InsertSorted(SortBy(Front(s)), Last(s))

\* The debug_assert! of lines 16-18, evaluated in a debug build only
DebugAssertHolds(sorted) == Len(sorted) >= 2 => sorted[1][2] >= sorted[2][2]

\* sort_descending_by_cumulative_difficulty: the sorted scores, and whether a
\* build with debug assertions panics
sort_descending_by_cumulative_difficulty(scores, debug) ==
    LET sorted == SortBy(scores)
    IN  [scores |-> sorted, panic |-> debug /\ ~DebugAssertHolds(sorted)]

\* The provider lookups of a call: the result of each is held by the snapshot
LookupResults(values) ==
    {[ok |-> TRUE, value |-> v] : v \in values} \cup {[ok |-> FALSE, value |-> 0]}

\* The loop `for hash in tips { provider.lookup(hash).await?; scores.push(..) }`
RECURSIVE LoadScores(_, _)
LoadScores(provider, tips) ==
    IF tips = <<>> THEN [ok |-> TRUE, scores |-> <<>>, lookups |-> <<>>]
    ELSE LET prev == LoadScores(provider, Front(tips))
             hash == Last(tips)
         IN  IF ~prev.ok THEN prev
             ELSE IF ~provider[hash].ok
                  THEN [ok |-> FALSE, scores |-> prev.scores,
                        lookups |-> Append(prev.lookups, hash)]
                  ELSE [ok |-> TRUE,
                        scores |-> Append(prev.scores, <<hash, provider[hash].value>>),
                        lookups |-> Append(prev.lookups, hash)]

Ok(v, lookups) == [kind |-> "Ok", value |-> v, error |-> "none", lookups |-> lookups]

Err(e, empty, lookups) == [kind |-> "Err", value |-> empty, error |-> e, lookups |-> lookups]

Panic(empty, lookups) == [kind |-> "Panic", value |-> empty, error |-> "none", lookups |-> lookups]

NoResult == [kind |-> "none", value |-> <<>>, error |-> "none", lookups |-> <<>>]

\* Faulty variants of sort_tips: without the empty check, without the sort,
\* without the single-tip return
sort_tips_no_empty_check(storage, tips, debug) ==
    IF Len(tips) = 1 THEN Ok(tips, <<>>)
    ELSE LET loaded == LoadScores(storage, tips)
         IN  IF ~loaded.ok THEN Err("Storage", <<>>, loaded.lookups)
             ELSE LET sorted == sort_descending_by_cumulative_difficulty(loaded.scores, debug)
                  IN  IF sorted.panic THEN Panic(<<>>, loaded.lookups)
                      ELSE Ok([i \in DOMAIN sorted.scores |-> sorted.scores[i][1]],
                              loaded.lookups)

sort_tips_unsorted(storage, tips, debug) ==
    IF Len(tips) = 0 THEN Err("ExpectedTips", <<>>, <<>>)
    ELSE LET loaded == LoadScores(storage, tips)
         IN  IF ~loaded.ok THEN Err("Storage", <<>>, loaded.lookups)
             ELSE Ok(tips, loaded.lookups)

sort_tips_no_single(storage, tips, debug) ==
    IF Len(tips) = 0 THEN Err("ExpectedTips", <<>>, <<>>)
    ELSE LET loaded == LoadScores(storage, tips)
         IN  IF ~loaded.ok THEN Err("Storage", <<>>, loaded.lookups)
             ELSE LET sorted == sort_descending_by_cumulative_difficulty(loaded.scores, debug)
                  IN  IF sorted.panic THEN Panic(<<>>, loaded.lookups)
                      ELSE Ok([i \in DOMAIN sorted.scores |-> sorted.scores[i][1]],
                              loaded.lookups)

\* sort_tips
sort_tips(storage, tips, debug) ==
    IF Len(tips) = 0 THEN Err("ExpectedTips", <<>>, <<>>)
    ELSE IF Len(tips) = 1 THEN Ok(tips, <<>>)
    ELSE LET loaded == LoadScores(storage, tips)
         IN  IF ~loaded.ok THEN Err("Storage", <<>>, loaded.lookups)
             ELSE LET sorted == sort_descending_by_cumulative_difficulty(loaded.scores, debug)
                  IN  IF sorted.panic THEN Panic(<<>>, loaded.lookups)
                      ELSE Ok([i \in DOMAIN sorted.scores |-> sorted.scores[i][1]],
                              loaded.lookups)

\* The loop of calculate_height_at_tips, lines 49-55
RECURSIVE LoadHeight(_, _)
LoadHeight(provider, tips) ==
    IF tips = <<>> THEN [ok |-> TRUE, height |-> 0, lookups |-> <<>>]
    ELSE LET prev == LoadHeight(provider, Front(tips))
             hash == Last(tips)
         IN  IF ~prev.ok THEN prev
             ELSE IF ~provider[hash].ok
                  THEN [ok |-> FALSE, height |-> prev.height,
                        lookups |-> Append(prev.lookups, hash)]
                  ELSE LET past_height == provider[hash].value
                       IN  [ok |-> TRUE,
                            height |-> IF prev.height <= past_height
                                       THEN past_height ELSE prev.height,
                            lookups |-> Append(prev.lookups, hash)]

\* calculate_height_at_tips.  `height += 1` is u64 arithmetic: at u64::MAX a
\* build with overflow checks panics, and one without wraps to 0.
calculate_height_at_tips(provider, tips, overflow_checks) ==
    LET loaded == LoadHeight(provider, tips)
    IN  IF ~loaded.ok THEN Err("Storage", 0, loaded.lookups)
        ELSE IF Len(tips) # 0
             THEN IF loaded.height = MaxU64
                  THEN IF overflow_checks THEN Panic(0, loaded.lookups)
                       ELSE Ok((loaded.height + 1) % (MaxU64 + 1), loaded.lookups)
                  ELSE Ok(loaded.height + 1, loaded.lookups)
             ELSE Ok(loaded.height, loaded.lookups)

\* Faulty variant of find_best_tip_by_cumulative_difficulty: the first tip given
find_best_tip_first_given(provider, tips, debug) ==
    IF Len(tips) = 0 THEN Err("ExpectedTips", <<>>, <<>>)
    ELSE IF Len(tips) = 1 THEN Ok(tips[1], <<>>)
    ELSE LET loaded == LoadScores(provider, tips)
         IN  IF ~loaded.ok THEN Err("Storage", <<>>, loaded.lookups)
             ELSE Ok(tips[1], loaded.lookups)

\* find_best_tip_by_cumulative_difficulty
find_best_tip_by_cumulative_difficulty(provider, tips, debug) ==
    IF Len(tips) = 0 THEN Err("ExpectedTips", <<>>, <<>>)
    ELSE IF Len(tips) = 1 THEN Ok(tips[1], <<>>)
    ELSE LET loaded == LoadScores(provider, tips)
         IN  IF ~loaded.ok THEN Err("Storage", <<>>, loaded.lookups)
             ELSE LET sorted == sort_descending_by_cumulative_difficulty(loaded.scores, debug)
                  IN  IF sorted.panic THEN Panic(<<>>, loaded.lookups)
                      ELSE Ok(sorted.scores[1][1], loaded.lookups)

(***************************************************************************)
(* cached_state.rs                                                         *)
(***************************************************************************)
Accounts == {"K1", "K2"}

Assets == {"X", "Y"}

\* Ciphertexts are opaque; CachedCiphertext::default() is the encrypted zero
DefaultCiphertext == "zero"

Ciphertexts == {DefaultCiphertext, "ct1"}

Nonces == 0..MaxNonce

Topoheights == 0..MaxTopoheight

\* Option<T>
None == <<>>

Some(v) == <<v>>

\* HashMap: a function on the keys present
EmptyMap == <<>>

MapInsert(map, key, value) ==
    [k \in DOMAIN map \cup {key} |-> IF k = key THEN value ELSE map[k]]

\* Updatable<T>
UpdatableNew(inner) == [inner |-> inner, modified |-> FALSE]

\* #[derive(Default)]: the default inner value, not modified
UpdatableDefault(inner) == [inner |-> inner, modified |-> FALSE]

\* Faulty variant of deref_mut: the write goes through, the flag is not set
DerefMutKeepsFlag(u, inner) == [inner |-> inner, modified |-> u.modified]

\* Updatable::deref_mut followed by the caller's write through the reference
DerefMut(u, inner) == [inner |-> inner, modified |-> TRUE]

\* CachedVersionedBalance and its Default
DefaultCachedVersionedBalance ==
    [output_balance |-> None, final_balance |-> DefaultCiphertext,
     previous_topoheight |-> None]

\* impl From<CachedVersionedBalance> for VersionedBalance: new(final_balance,
\* previous_topoheight), then set_output_balance when there is one
VersionedBalanceNew(final_balance, previous_topoheight) ==
    [final_balance |-> final_balance, output_balance |-> None,
     previous_topoheight |-> previous_topoheight]

\* Faulty variant of the conversion: the output balance is dropped
IntoVersionedBalanceNoOutput(value) ==
    VersionedBalanceNew(value.final_balance, value.previous_topoheight)

IntoVersionedBalance(value) ==
    LET v == VersionedBalanceNew(value.final_balance, value.previous_topoheight)
    IN  IF value.output_balance # None
        THEN [v EXCEPT !.output_balance = Some(value.output_balance[1])]
        ELSE v

\* CachedVersionedBalance::effective_balance
effective_balance(bal) ==
    IF bal.output_balance # None THEN bal.output_balance[1] ELSE bal.final_balance

\* Faulty variant of CachedVersionedBalance::update_balance: final_balance is overwritten
SetFinalBalance(bal, ct) == [bal EXCEPT !.final_balance = ct]

\* CachedVersionedBalance::update_balance
SetOutputBalance(bal, ct) == [bal EXCEPT !.output_balance = Some(ct)]

\* CachedAccount and its Default
DefaultCachedAccount == [balances |-> EmptyMap]

\* Storage reads: the topoheights at or below `topo` at which a version of
\* (key, asset) was written, and the account made of the latest versions
BalanceVersionsAt(store, key, asset, topo) ==
    {t \in 0..topo : <<key, asset, t>> \in DOMAIN store.balances}

FetchAccount(store, key, topo) ==
    [balances |->
        [asset \in {a \in Assets : BalanceVersionsAt(store, key, a, topo) # {}} |->
            LET t == MaxOf(BalanceVersionsAt(store, key, asset, topo))
                v == store.balances[<<key, asset, t>>]
            IN  UpdatableNew([output_balance |-> v.output_balance,
                              final_balance |-> v.final_balance,
                              previous_topoheight |-> Some(t)])]]

\* Storage reads: the nonce of `key` as last written at or below `topo`
NonceVersionsAt(store, key, topo) ==
    {t \in 0..topo : <<key, t>> \in DOMAIN store.nonces}

StoredNonce(store, key, topo) ==
    IF NonceVersionsAt(store, key, topo) = {} THEN None
    ELSE Some(store.nonces[<<key, MaxOf(NonceVersionsAt(store, key, topo))>>])

\* CachedAccount::init_for_account.  The source leaves the body as todo!();
\* it is taken here as the fetch the specification describes: it fills the
\* account it is called on with the balances stored for `key` at
\* `topo`, or fails with the storage's error.
init_for_account(account, store, key, topo, fetch_fails) ==
    IF fetch_fails THEN [ok |-> FALSE, account |-> account]
    ELSE [ok |-> TRUE, account |-> FetchAccount(store, key, topo)]

\* One future of init_from_storage_for_tx (lines 122-128): `acc` is a default
\* account, init_for_account runs on another default account that is then
\* dropped, and the future yields (key, acc)
AccountFuture(key, store, topo, fetch_fails) ==
    LET acc == DefaultCachedAccount
        fetched == init_for_account(DefaultCachedAccount, store, key, topo, fetch_fails)
    IN  [ok |-> fetched.ok, key |-> key, account |-> acc]

\* The try_for_each of lines 131-136 over the futures that completed before
\* the first failure: each inserts Updatable::new(account) under its key
RECURSIVE InsertAccounts(_, _, _, _)
InsertAccounts(bals, keys, store, topo) ==
    IF keys = {} THEN bals
    ELSE LET key == CHOOSE k \in keys : TRUE
         IN  InsertAccounts(
                 MapInsert(bals, key,
                           UpdatableNew(AccountFuture(key, store, topo, FALSE).account)),
                 keys \ {key}, store, topo)

\* BlockchainVerificationState::get_balance
get_balance(bals, account, asset) ==
    IF account \notin DOMAIN bals THEN [kind |-> "Ok", value |-> DefaultCiphertext]
    ELSE IF asset \notin DOMAIN bals[account].inner.balances
         THEN [kind |-> "Ok", value |-> DefaultCiphertext]
         ELSE [kind |-> "Ok",
               value |-> effective_balance(bals[account].inner.balances[asset].inner)]

\* Faulty variant of update_balance: the asset entry is written and marked, the
\* account's wrapper is reached without deref_mut and keeps its flag
update_balance_account_unmarked(bals, account, asset, new_balance) ==
    LET acc == IF account \in DOMAIN bals THEN bals[account]
               ELSE UpdatableDefault(DefaultCachedAccount)
        bal == IF asset \in DOMAIN acc.inner.balances THEN acc.inner.balances[asset]
               ELSE UpdatableDefault(DefaultCachedVersionedBalance)
        newBal == DerefMut(bal, SetOutputBalance(bal.inner, new_balance))
        newAcc == DerefMutKeepsFlag(acc, [balances |-> MapInsert(acc.inner.balances, asset, newBal)])
    IN  MapInsert(bals, account, newAcc)

\* BlockchainVerificationState::update_balance.  `account.balances.entry(..)`
\* and `bal.update_balance(..)` both go through deref_mut.
update_balance(bals, account, asset, new_balance) ==
    LET acc == IF account \in DOMAIN bals THEN bals[account]
               ELSE UpdatableDefault(DefaultCachedAccount)
        bal == IF asset \in DOMAIN acc.inner.balances THEN acc.inner.balances[asset]
               ELSE UpdatableDefault(DefaultCachedVersionedBalance)
        newBal == DerefMut(bal, SetOutputBalance(bal.inner, new_balance))
        newAcc == DerefMut(acc, [balances |-> MapInsert(acc.inner.balances, asset, newBal)])
    IN  MapInsert(bals, account, newAcc)

\* BlockchainVerificationState::get_account_nonce
get_account_nonce(ns, account) ==
    IF account \in DOMAIN ns THEN [kind |-> "Ok", value |-> ns[account].inner]
    ELSE [kind |-> "Ok", value |-> 0]

\* Faulty variant of update_account_nonce: the entry is written, and marked,
\* only when the nonce changes
update_account_nonce_if_changed(ns, account, new_nonce) ==
    LET nonce == IF account \in DOMAIN ns THEN ns[account] ELSE UpdatableDefault(0)
    IN  MapInsert(ns, account,
                  IF nonce.inner = new_nonce THEN nonce ELSE DerefMut(nonce, new_nonce))

\* BlockchainVerificationState::update_account_nonce
update_account_nonce(ns, account, new_nonce) ==
    LET nonce == IF account \in DOMAIN ns THEN ns[account] ELSE UpdatableDefault(0)
    IN  MapInsert(ns, account, DerefMut(nonce, new_nonce))

\* apply_updates, lines 148-158: the (key, asset) pairs the two filters keep
BalancesToWrite(bals) ==
    {<<key, asset>> \in Accounts \X Assets :
        /\ key \in DOMAIN bals
        /\ bals[key].modified
        /\ asset \in DOMAIN bals[key].inner.balances
        /\ bals[key].inner.balances[asset].modified}

\* The orders the flat_map over the two HashMaps can yield them in: any order
\* of the accounts, and within an account any order of its assets
IterationOrders(pairs) ==
    {order \in [1..Cardinality(pairs) -> pairs] :
        /\ \A i, j \in DOMAIN order : order[i] = order[j] => i = j
        /\ \A i, j, k \in DOMAIN order :
            (i < j /\ j < k /\ order[i][1] = order[k][1]) => order[j][1] = order[i][1]}

\* Faulty variant of the call: written at the cache's base topoheight
BalanceCallAtBase(bals, pair, t) ==
    [fn |-> "set_last_balance_to", key |-> pair[1], asset |-> pair[2],
     topoheight |-> topoheight,
     value |-> IntoVersionedBalance(bals[pair[1]].inner.balances[pair[2]].inner)]

\* The call of line 161 for one pair
BalanceCall(bals, pair, t) ==
    [fn |-> "set_last_balance_to", key |-> pair[1], asset |-> pair[2],
     topoheight |-> t,
     value |-> IntoVersionedBalance(bals[pair[1]].inner.balances[pair[2]].inner)]

\* The nonces the filter of line 164 keeps
NoncesToWrite(ns) == {key \in DOMAIN ns : ns[key].modified}

\* The loop of lines 166-169 has an empty body (the write is commented out):
\* it issues no call
NonceCalls(ns, order, t) == <<>>

\* Storage::set_last_balance_to that succeeded
StoreBalance(store, call) ==
    [store EXCEPT !.balances =
        MapInsert(@, <<call.key, call.asset, call.topoheight>>, call.value)]

RECURSIVE StoreBalances(_, _)
StoreBalances(store, calls) ==
    IF calls = <<>> THEN store
    ELSE StoreBalances(StoreBalance(store, Head(calls)), Tail(calls))

EmptyStorage == [balances |-> EmptyMap, nonces |-> EmptyMap]

\* What the storage holds when the cache is created: a balance of K1 in
\* asset X and a nonce of K1, both written at topoheight 0, and nothing of K2
InitialStorage ==
    [balances |-> MapInsert(EmptyMap, <<"K1", "X", 0>>, VersionedBalanceNew("ct1", None)),
     nonces |-> MapInsert(EmptyMap, <<"K1", 0>>, 1)]

\* The errors a Storage call can fail with (opaque to the cache)
StorageErrors == {"StorageErrorA", "StorageErrorB"}

\* Faulty variant of the loop: it goes on after a failing write and returns
\* the first error at the end
RECURSIVE WriteBalancesKeepGoing(_, _, _, _)
WriteBalancesKeepGoing(bals, order, t, answers) ==
    IF order = <<>> THEN [calls |-> <<>>, result |-> "Ok"]
    ELSE LET rest == WriteBalancesKeepGoing(bals, Tail(order), t, Tail(answers))
         IN  [calls |-> <<BalanceCall(bals, Head(order), t)>> \o rest.calls,
              result |-> IF Head(answers) # "Ok" THEN Head(answers) ELSE rest.result]

\* The loop of lines 160-162 over the pairs in iteration order; answers[i] is
\* what the storage answers to the i-th call, and the `?` returns the first
\* error as it is (BlockchainError into BlockchainError)
RECURSIVE WriteBalances(_, _, _, _)
WriteBalances(bals, order, t, answers) ==
    IF order = <<>> THEN [calls |-> <<>>, result |-> "Ok"]
    ELSE IF Head(answers) # "Ok"
         THEN [calls |-> <<BalanceCall(bals, Head(order), t)>>, result |-> Head(answers)]
         ELSE LET rest == WriteBalances(bals, Tail(order), t, Tail(answers))
              IN  [calls |-> <<BalanceCall(bals, Head(order), t)>> \o rest.calls,
                   result |-> rest.result]

\* The calls the storage answered Ok to: a failing write stores nothing
RECURSIVE AnsweredOk(_, _)
AnsweredOk(calls, answers) ==
    IF calls = <<>> THEN <<>>
    ELSE (IF Head(answers) = "Ok" THEN <<Head(calls)>> ELSE <<>>)
             \o AnsweredOk(Tail(calls), Tail(answers))

(***************************************************************************)
(* p2p/packet/ping.rs: Ping::update_peer.  The Peer and the Direction of   *)
(* a peer-set entry live outside this file and are taken as the            *)
(* specification describes them.                                           *)
(***************************************************************************)
\* SocketAddr: the peer's own two addresses and two other nodes
ConnectionAddress == "1.2.3.4:40000"

OutgoingAddress == "1.2.3.4:5000"

Addresses == {ConnectionAddress, OutgoingAddress, "5.6.7.8:5000", "9.9.9.9:5000"}

\* Direction of a peer-set entry
Directions == {"In", "Out", "Both"}

\* Direction::update_allow_in: an entry the local node advertised (Out) that
\* the peer now reports becomes Both; an entry the peer already reported
\* (In, Both) is refused and left as it is
update_allow_in(self, direction) ==
    IF self = "Out" /\ direction = "In" THEN [direction |-> "Both", allowed |-> TRUE]
    ELSE IF self = "In" /\ direction = "Out" THEN [direction |-> "Both", allowed |-> TRUE]
    ELSE [direction |-> self, allowed |-> FALSE]

\* The chain tips a Ping can advertise: the tip of a chain of t blocks has
\* topoheight and height t (update_peer relates none of the three to another)
ChainTips ==
    {[top_hash |-> HashOf(t), topoheight |-> t, height |-> t] : t \in Topoheights}

\* pruned_topoheight: Option<u64>.  Ping::new takes any value, Some(0) too
PrunedTopoheights == {None} \cup {Some(p) : p \in Topoheights}

PeerLists == SeqsUpTo(Addresses, MaxPeerList)

\* Ping::new
Pings ==
    {[top_hash |-> tip.top_hash, topoheight |-> tip.topoheight, height |-> tip.height,
      pruned_topoheight |-> pruned, cumulative_difficulty |-> difficulty,
      peer_list |-> list] :
        tip \in ChainTips, pruned \in PrunedTopoheights, difficulty \in Difficulties,
        list \in PeerLists}

\* A Peer after the handshake: at the genesis tip, not pruned, its peer-set
\* holding the addresses the local node advertised to it
NewPeer(peers) ==
    [top_hash |-> HashOf(0), topoheight |-> 0, height |-> 0, pruned_topoheight |-> None,
     cumulative_difficulty |-> 0, connection_address |-> ConnectionAddress,
     outgoing_address |-> OutgoingAddress, peers |-> peers]

\* Peer::is_pruned
is_pruned(peer) == peer.pruned_topoheight # None

\* What update_peer returned: the return statement is kept with the result
PingOk(events) == [kind |-> "Ok", error |-> "none", line |-> 126, events |-> events]

InvalidProtocolRules(line, events) ==
    [kind |-> "Err", error |-> "InvalidProtocolRules", line |-> line, events |-> events]

\* The events handed to an RPC server that tracks them (lines 82-86, 114-122)
PeerStateUpdated(peer) ==
    [event |-> "PeerStateUpdated", topoheight |-> peer.topoheight,
     pruned_topoheight |-> peer.pruned_topoheight,
     cumulative_difficulty |-> peer.cumulative_difficulty, peerlist |-> <<>>]

PeerPeerListUpdated(peer, peerlist) ==
    [event |-> "PeerPeerListUpdated", topoheight |-> peer.topoheight,
     pruned_topoheight |-> peer.pruned_topoheight,
     cumulative_difficulty |-> peer.cumulative_difficulty, peerlist |-> peerlist]

\* Faulty variant of line 59: a Ping without pruned topoheight is taken from
\* a pruned peer
ChangesPrunedStateIgnored(self, peer) == FALSE

\* Line 59: the peer is known pruned and the Ping carries no pruned topoheight
ChangesPrunedState(self, peer) == is_pruned(peer) /\ self.pruned_topoheight = None

\* Line 65
PrunedAboveTopoheight(self) ==
    self.pruned_topoheight # None /\ self.pruned_topoheight[1] > self.topoheight

\* Faulty variant of lines 70-75: the old pruned topoheight is not looked at
PrunedBelowOldIgnored(self, peer) == FALSE

\* Lines 70-75
PrunedBelowOld(self, peer) ==
    /\ self.pruned_topoheight # None
    /\ peer.pruned_topoheight # None
    /\ self.pruned_topoheight[1] < peer.pruned_topoheight[1]

\* Faulty variant of line 96: only the connection address is compared
IsOwnAddressConnectionOnly(peer, addr) == peer.connection_address = addr

\* Line 96: peer_addr == addr || peer_outgoing_addr == addr
IsOwnAddress(peer, addr) == peer.connection_address = addr \/ peer.outgoing_address = addr

\* Faulty variant of the loop: an address already in the peer-set is taken
\* without asking update_allow_in
RECURSIVE MergePeerListNoDuplicateCheck(_, _, _)
MergePeerListNoDuplicateCheck(peers, peer, list) ==
    IF list = <<>> THEN [peers |-> peers, ok |-> TRUE, line |-> 0]
    ELSE LET addr == Head(list)
         IN  IF IsOwnAddress(peer, addr) THEN [peers |-> peers, ok |-> FALSE, line |-> 98]
             ELSE IF addr \in DOMAIN peers
                  THEN MergePeerListNoDuplicateCheck(peers, peer, Tail(list))
                  ELSE MergePeerListNoDuplicateCheck(MapInsert(peers, addr, "In"), peer,
                                                     Tail(list))

\* The loop of lines 95-111 on the locked peer-set: what it has inserted or
\* changed stays when it returns early
RECURSIVE MergePeerList(_, _, _)
MergePeerList(peers, peer, list) ==
    IF list = <<>> THEN [peers |-> peers, ok |-> TRUE, line |-> 0]
    ELSE LET addr == Head(list)
         IN  IF IsOwnAddress(peer, addr) THEN [peers |-> peers, ok |-> FALSE, line |-> 98]
             ELSE IF addr \in DOMAIN peers
                  THEN LET updated == update_allow_in(peers[addr], "In")
                           changed == MapInsert(peers, addr, updated.direction)
                       IN  IF ~updated.allowed
                           THEN [peers |-> changed, ok |-> FALSE, line |-> 106]
                           ELSE MergePeerList(changed, peer, Tail(list))
                  ELSE MergePeerList(MapInsert(peers, addr, "In"), peer, Tail(list))

\* Faulty variant of update_peer: PeerStateUpdated is notified before lines
\* 78-79 store the pruned topoheight and the cumulative difficulty
update_peer_notify_first(self, peer) ==
    LET set == [peer EXCEPT !.top_hash = self.top_hash,
                            !.topoheight = self.topoheight,
                            !.height = self.height]
    IN  IF ChangesPrunedState(self, set)
        THEN [peer |-> set, result |-> InvalidProtocolRules(61, <<>>)]
        ELSE IF PrunedAboveTopoheight(self)
        THEN [peer |-> set, result |-> InvalidProtocolRules(67, <<>>)]
        ELSE IF PrunedBelowOld(self, set)
        THEN [peer |-> set, result |-> InvalidProtocolRules(73, <<>>)]
        ELSE LET stored == [set EXCEPT !.pruned_topoheight = self.pruned_topoheight,
                                       !.cumulative_difficulty = self.cumulative_difficulty]
                 state_event == <<PeerStateUpdated(set)>>
             IN  IF self.peer_list = <<>>
                 THEN [peer |-> stored, result |-> PingOk(state_event)]
                 ELSE LET merged == MergePeerList(stored.peers, stored, self.peer_list)
                          after == [stored EXCEPT !.peers = merged.peers]
                      IN  IF ~merged.ok
                          THEN [peer |-> after,
                                result |-> InvalidProtocolRules(merged.line, state_event)]
                          ELSE [peer |-> after,
                                result |-> PingOk(Append(state_event,
                                    PeerPeerListUpdated(after, self.peer_list)))]

\* Ping::update_peer: the peer as the call leaves it, and the result
update_peer(self, peer) ==
    LET set == [peer EXCEPT !.top_hash = self.top_hash,
                            !.topoheight = self.topoheight,
                            !.height = self.height]
    IN  IF ChangesPrunedState(self, set)
        THEN [peer |-> set, result |-> InvalidProtocolRules(61, <<>>)]
        ELSE IF PrunedAboveTopoheight(self)
        THEN [peer |-> set, result |-> InvalidProtocolRules(67, <<>>)]
        ELSE IF PrunedBelowOld(self, set)
        THEN [peer |-> set, result |-> InvalidProtocolRules(73, <<>>)]
        ELSE LET stored == [set EXCEPT !.pruned_topoheight = self.pruned_topoheight,
                                       !.cumulative_difficulty = self.cumulative_difficulty]
                 state_event == <<PeerStateUpdated(stored)>>
             IN  IF self.peer_list = <<>>
                 THEN [peer |-> stored, result |-> PingOk(state_event)]
                 ELSE LET merged == MergePeerList(stored.peers, stored, self.peer_list)
                          after == [stored EXCEPT !.peers = merged.peers]
                      IN  IF ~merged.ok
                          THEN [peer |-> after,
                                result |-> InvalidProtocolRules(merged.line, state_event)]
                          ELSE [peer |-> after,
                                result |-> PingOk(Append(state_event,
                                    PeerPeerListUpdated(after, self.peer_list)))]

NoPing == <<>>

NoPingResult == [kind |-> "none", error |-> "none", line |-> 0, events |-> <<>>]

\* No update_peer call in progress on a peer fresh from the handshake
PingFresh(peers) ==
    /\ peerState = NewPeer(peers)
    /\ pingOp = "idle"
    /\ pingMsg = NoPing
    /\ pingResult = NoPingResult

(***************************************************************************)
(* The cache specification: one CachedState from its creation to its       *)
(* commit.  The state is single-owner (&mut self), so each operation is    *)
(* one step.  apply_updates takes &self and changes no field of the cache; *)
(* the cache is discarded after the commit.                                *)
(***************************************************************************)
CacheFresh(base, store) ==
    /\ topoheight = base
    /\ balances = EmptyMap
    /\ nonces = EmptyMap
    /\ snapshot = store
    /\ persisted = EmptyStorage
    /\ phase = "staging"
    /\ applyCalls = <<>>
    /\ applyAnswers = <<>>
    /\ applyResult = "none"
    /\ applyTopoheight = 0
    /\ lastUpdate = [pair \in Accounts \X Assets |-> None]
    /\ lastNonce = [account \in Accounts |-> None]

\* No buffer written or received
NoWireResult ==
    [kind |-> "none", value |-> <<>>, error |-> "none", reader |-> [bytes |-> <<>>, total |-> 0]]

WireIdle ==
    /\ wireOp = "idle"
    /\ wireKind = "none"
    /\ wireValue = <<>>
    /\ wireBytes = <<>>
    /\ wireTamper = "none"
    /\ wireReader = "none"
    /\ wireResult = NoWireResult

\* The Prompt as Prompt::new returns it: the State of State::new (lines 133-144),
\* an empty channel(1) behind an unlocked AsyncMutex, the ioloop thread spawned,
\* the terminal not yet in raw mode
Readers == {"r1", "r2"}

NoChannel == [state |-> "none", value |-> <<>>]

NoInput == [kind |-> "none", value |-> <<>>]

NoCall ==
    [pc |-> "idle", apply_mask |-> FALSE, old_prompt |-> None,
     old_user_input |-> <<>>, input |-> NoInput, cancelled |-> FALSE,
     issued |-> FALSE]

\* No concurrent update_peer call made, the peer-set unlocked
Handlers == {"h1", "h2"}

NoHandler == [pc |-> "idle", ping |-> NoPing, result |-> NoPingResult]

HandlersIdle ==
    /\ handlers = [handler \in Handlers |-> NoHandler]
    /\ peers_lock = None

PromptNew ==
    /\ has_exited = FALSE
    /\ raw_mode = FALSE
    /\ disabled = 0
    /\ prompt = None
    /\ user_input = <<>>
    /\ mask_input = FALSE
    /\ prompt_sender = None
    /\ oneshot = [reader \in Readers |-> NoChannel]
    /\ read_input_channel = 0
    /\ read_input_lock = None
    /\ readers = [reader \in Readers |-> NoCall]
    /\ ioloop = "spawned"
    /\ starter = "idle"
    /\ dropper = "alive"

DagIdle ==
    /\ dagOp = "idle"
    /\ dagTips = <<>>
    /\ dagScores = <<>>
    /\ dagProvider = <<>>
    /\ dagResult = NoResult
    /\ dagLookups = <<>>

CacheInit ==
    /\ DagIdle
    /\ PingFresh(EmptyMap)
    /\ WireIdle
    /\ PromptNew
    /\ HandlersIdle
    /\ \E base \in Topoheights : CacheFresh(base, InitialStorage)

UpdateBalance ==
    /\ phase = "staging"
    /\ \E account \in Accounts, asset \in Assets, new_balance \in Ciphertexts :
        /\ balances' = update_balance(balances, account, asset, new_balance)
        /\ lastUpdate' = [lastUpdate EXCEPT ![<<account, asset>>] = Some(new_balance)]
    /\ UNCHANGED <<topoheight, nonces, snapshot, persisted, phase, applyCalls,
                   applyAnswers, applyResult, applyTopoheight, lastNonce, outsideCache>>

UpdateAccountNonce ==
    /\ phase = "staging"
    /\ \E account \in Accounts, new_nonce \in Nonces :
        /\ nonces' = update_account_nonce(nonces, account, new_nonce)
        /\ lastNonce' = [lastNonce EXCEPT ![account] = Some(new_nonce)]
    /\ UNCHANGED <<topoheight, balances, snapshot, persisted, phase, applyCalls,
                   applyAnswers, applyResult, applyTopoheight, lastUpdate, outsideCache>>

\* init_from_storage_for_tx for a transaction naming `accounts`: the futures
\* complete in any order; those completed before the first failing one are
\* inserted, and the first failure ends the call
InitFromStorageForTx ==
    /\ phase = "staging"
    /\ \E accounts \in SUBSET Accounts :
        \E failing \in SUBSET accounts :
            \E inserted \in SUBSET (accounts \ failing) :
                /\ failing = {} => inserted = accounts
                /\ balances' = InsertAccounts(balances, inserted, snapshot, topoheight)
    /\ UNCHANGED <<topoheight, nonces, snapshot, persisted, phase, applyCalls,
                   applyAnswers, applyResult, applyTopoheight, lastUpdate, lastNonce,
                   outsideCache>>

\* apply_updates(storage, t): the balance writes in iteration order, the
\* first failing write ending the call, then the nonce loop.  The storage
\* fails the call number failAt with `error` (none when failAt = 0).
ApplyUpdates ==
    /\ phase = "staging"
    /\ \E t \in Topoheights :
        \E order \in IterationOrders(BalancesToWrite(balances)) :
            \E failAt \in 0..Len(order), error \in StorageErrors :
                LET answers == [i \in 1..Len(order) |-> IF i = failAt THEN error ELSE "Ok"]
                    written == WriteBalances(balances, order, t, answers)
                    answered == SubSeq(answers, 1, Len(written.calls))
                    nonceCalls == IF written.result # "Ok" THEN <<>>
                                  ELSE NonceCalls(nonces, NoncesToWrite(nonces), t)
                IN  /\ applyCalls' = written.calls \o nonceCalls
                    /\ applyAnswers' = answered
                    /\ persisted' = StoreBalances(persisted, AnsweredOk(written.calls, answered))
                    /\ applyResult' = written.result
                    /\ applyTopoheight' = t
    /\ phase' = "committed"
    /\ UNCHANGED <<topoheight, balances, nonces, snapshot, lastUpdate, lastNonce,
                   outsideCache>>

CacheNext ==
    \/ UpdateBalance
    \/ UpdateAccountNonce
    \/ InitFromStorageForTx
    \/ ApplyUpdates

(***************************************************************************)
(* The BlockDAG specification: one call at a time on inputs drawn from the *)
(* bounded sets; the provider snapshot covers the hashes of the tips.      *)
(***************************************************************************)
TipLists == SeqsUpTo(Hashes, MaxTips)

ScoreLists == SeqsUpTo(Hashes \X Difficulties, MaxTips)

Providers(tips, values) == [Range(tips) -> LookupResults(values)]

DagInit ==
    /\ DagIdle
    /\ CacheFresh(0, EmptyStorage)
    /\ PingFresh(EmptyMap)
    /\ WireIdle
    /\ PromptNew
    /\ HandlersIdle

CallSortScores ==
    /\ dagOp = "idle"
    /\ \E scores \in ScoreLists, debug \in BOOLEAN :
        LET r == sort_descending_by_cumulative_difficulty(scores, debug)
        IN  /\ dagOp' = "sort_descending_by_cumulative_difficulty"
            /\ dagScores' = scores
            /\ dagResult' = IF r.panic THEN Panic(<<>>, <<>>) ELSE Ok(r.scores, <<>>)
            /\ dagLookups' = <<>>
            /\ UNCHANGED <<dagTips, dagProvider, outsideDag>>

CallSortTips ==
    /\ dagOp = "idle"
    /\ \E tips \in TipLists, debug \in BOOLEAN :
        \E storage \in Providers(tips, Difficulties) :
            LET r == sort_tips(storage, tips, debug)
            IN  /\ dagOp' = "sort_tips"
                /\ dagTips' = tips
                /\ dagProvider' = storage
                /\ dagResult' = r
                /\ dagLookups' = r.lookups
                /\ UNCHANGED <<dagScores, outsideDag>>

CallFindBestTip ==
    /\ dagOp = "idle"
    /\ \E tips \in TipLists, debug \in BOOLEAN :
        \E provider \in Providers(tips, Difficulties) :
            LET r == find_best_tip_by_cumulative_difficulty(provider, tips, debug)
            IN  /\ dagOp' = "find_best_tip_by_cumulative_difficulty"
                /\ dagTips' = tips
                /\ dagProvider' = provider
                /\ dagResult' = r
                /\ dagLookups' = r.lookups
                /\ UNCHANGED <<dagScores, outsideDag>>

CallCalculateHeight ==
    /\ dagOp = "idle"
    /\ \E tips \in TipLists, overflow_checks \in BOOLEAN :
        \E provider \in Providers(tips, Heights) :
            LET r == calculate_height_at_tips(provider, tips, overflow_checks)
            IN  /\ dagOp' = "calculate_height_at_tips"
                /\ dagTips' = tips
                /\ dagProvider' = provider
                /\ dagResult' = r
                /\ dagLookups' = r.lookups
                /\ UNCHANGED <<dagScores, outsideDag>>

\* The call returns; the next call starts from fresh arguments
DagReturn ==
    /\ dagOp # "idle"
    /\ dagOp' = "idle"
    /\ dagTips' = <<>>
    /\ dagScores' = <<>>
    /\ dagProvider' = <<>>
    /\ dagResult' = NoResult
    /\ dagLookups' = <<>>
    /\ UNCHANGED outsideDag

DagNext ==
    \/ CallSortScores
    \/ CallSortTips
    \/ CallFindBestTip
    \/ CallCalculateHeight
    \/ DagReturn

SpecDag == DagInit /\ [][DagNext]_vars

SpecCache == CacheInit /\ [][CacheNext]_vars

(***************************************************************************)
(* The Ping specification: one peer receiving Pings one after the other    *)
(* (within a peer, packets are processed in wire order).                   *)
(***************************************************************************)
\* The peer-sets a peer can hold after the handshake: addresses of other
\* nodes that the local node advertised to it
AdvertisedPeerSets ==
    UNION {[addrs -> {"Out"}] : addrs \in SUBSET (Addresses \ {ConnectionAddress, OutgoingAddress})}

PingInit ==
    /\ DagIdle
    /\ CacheFresh(0, EmptyStorage)
    /\ WireIdle
    /\ PromptNew
    /\ HandlersIdle
    /\ \E peers \in AdvertisedPeerSets : PingFresh(peers)

UpdatePeer ==
    /\ pingOp = "idle"
    /\ \E self \in Pings :
        LET r == update_peer(self, peerState)
        IN  /\ pingOp' = "update_peer"
            /\ pingMsg' = self
            /\ peerState' = r.peer
            /\ pingResult' = r.result
    /\ UNCHANGED outsidePing

\* The call has returned; the peer keeps its state for the next Ping
PingReturn ==
    /\ pingOp = "update_peer"
    /\ pingOp' = "idle"
    /\ pingMsg' = NoPing
    /\ pingResult' = NoPingResult
    /\ UNCHANGED <<peerState, outsidePing>>

PingNext ==
    \/ UpdatePeer
    \/ PingReturn

SpecPing == PingInit /\ [][PingNext]_vars

(***************************************************************************)
(* Writer and Reader (xelis_common::serializer).  A buffer is a sequence   *)
(* of bytes (0 .. 255); integers are written big-endian on their fixed     *)
(* width; a read past the end of the buffer fails with InvalidSize.        *)
(***************************************************************************)
HASH_SIZE == 32

RECURSIVE to_be_bytes(_, _)
to_be_bytes(v, width) ==
    IF width = 0 THEN <<>> ELSE Append(to_be_bytes(v \div 256, width - 1), v % 256)

RECURSIVE from_be_bytes(_)
from_be_bytes(bytes) ==
    IF bytes = <<>> THEN 0 ELSE from_be_bytes(Front(bytes)) * 256 + Last(bytes)

RECURSIVE Flatten(_)
Flatten(chunks) == IF chunks = <<>> THEN <<>> ELSE Head(chunks) \o Flatten(Tail(chunks))

\* Writer: every write appends to the buffer
write_u8(v) == <<v>>

write_u16(v) == to_be_bytes(v, 2)

write_u32(v) == to_be_bytes(v, 4)

write_u64(v) == to_be_bytes(v, 8)

write_bool(b) == <<IF b THEN 1 ELSE 0>>

\* A Hash of the model stands for the 32-byte hash that ends with its bytes
\* and is zero before them
write_hash(hash) == [i \in 1..(HASH_SIZE - Len(hash)) |-> 0] \o hash

HashFromBytes(bytes) ==
    LET lead == HASH_SIZE - Len(HashOf(0))
    IN  IF \A i \in 1..lead : bytes[i] = 0 THEN SubSeq(bytes, lead + 1, HASH_SIZE) ELSE bytes

\* Reader: the buffer and the number of bytes read so far
ReaderNew(bytes) == [bytes |-> bytes, total |-> 0]

\* Reader::size: the bytes not read yet;  Reader::total_size: the whole buffer
ReaderSize(reader) == Len(reader.bytes) - reader.total

total_size(reader) == Len(reader.bytes)

ReadOk(value, reader) == [kind |-> "Ok", value |-> value, error |-> "none", reader |-> reader]

ReadErr(error, reader) == [kind |-> "Err", value |-> <<>>, error |-> error, reader |-> reader]

\* The `?` operator: an error is returned at once, a value is handed on
Try(result, Continue(_)) == IF result.kind = "Err" THEN result ELSE Continue(result)

read_bytes(reader, n) ==
    IF n > ReaderSize(reader) THEN ReadErr("InvalidSize", reader)
    ELSE ReadOk(SubSeq(reader.bytes, reader.total + 1, reader.total + n),
                [reader EXCEPT !.total = @ + n])

ReadUint(reader, width) ==
    Try(read_bytes(reader, width), LAMBDA r : ReadOk(from_be_bytes(r.value), r.reader))

read_u8(reader) == ReadUint(reader, 1)

read_u16(reader) == ReadUint(reader, 2)

read_u32(reader) == ReadUint(reader, 4)

read_u64(reader) == ReadUint(reader, 8)

read_bool(reader) ==
    Try(read_u8(reader), LAMBDA r :
        IF r.value = 0 THEN ReadOk(FALSE, r.reader)
        ELSE IF r.value = 1 THEN ReadOk(TRUE, r.reader)
        ELSE ReadErr("InvalidValue", r.reader))

read_hash(reader) ==
    Try(read_bytes(reader, HASH_SIZE), LAMBDA r : ReadOk(HashFromBytes(r.value), r.reader))

\* Option<u64>: a bool, then the value when it is Some
OptionU64Write(option) ==
    write_bool(option # None) \o (IF option # None THEN write_u64(option[1]) ELSE <<>>)

OptionU64Read(reader) ==
    Try(read_bool(reader), LAMBDA present :
        IF present.value
        THEN Try(read_u64(present.reader), LAMBDA value :
                 ReadOk(Some(value.value), value.reader))
        ELSE ReadOk(None, present.reader))

\* Difficulty: an unsigned 64-bit integer on the wire
DifficultyWrite(difficulty) == write_u64(difficulty)

DifficultyRead(reader) == read_u64(reader)

\* utils::ip_to_bytes / ip_from_bytes: 0 and the four bytes of an IPv4
\* address, or 1 and the sixteen of an IPv6 one, then the port
IpOctets(addr) ==
    CASE addr = "1.2.3.4:40000" -> <<1, 2, 3, 4>>
      [] addr = "1.2.3.4:5000" -> <<1, 2, 3, 4>>
      [] addr = "5.6.7.8:5000" -> <<5, 6, 7, 8>>
      [] addr = "9.9.9.9:5000" -> <<9, 9, 9, 9>>

PortOf(addr) == IF addr = "1.2.3.4:40000" THEN 40000 ELSE 5000

ip_to_bytes(addr) == write_u8(0) \o IpOctets(addr) \o write_u16(PortOf(addr))

\* The address a byte string stands for: one of Addresses, or the bytes
\* themselves for an address outside them
SocketAddrOf(bytes) ==
    IF \E addr \in Addresses : ip_to_bytes(addr) = bytes
    THEN CHOOSE addr \in Addresses : ip_to_bytes(addr) = bytes
    ELSE bytes

ip_from_bytes(reader) ==
    Try(read_bool(reader), LAMBDA is_v6 :
    Try(read_bytes(is_v6.reader, IF is_v6.value THEN 16 ELSE 4), LAMBDA ip :
    Try(read_bytes(ip.reader, 2), LAMBDA port :
        ReadOk(SocketAddrOf(SubSeq(reader.bytes, reader.total + 1, port.reader.total)),
               port.reader))))

(***************************************************************************)
(* ping.rs: impl Serializer for Ping                                       *)
(***************************************************************************)
\* Ping::write.  The peer count is written as `len() as u8`
PingWrite(self) ==
    write_hash(self.top_hash)
        \o write_u64(self.topoheight)
        \o write_u64(self.height)
        \o OptionU64Write(self.pruned_topoheight)
        \o DifficultyWrite(self.cumulative_difficulty)
        \o write_u8(Len(self.peer_list) % 256)
        \o Flatten([i \in DOMAIN self.peer_list |-> ip_to_bytes(self.peer_list[i])])

\* for _ in 0..peers_len { peer_list.push(ip_from_bytes(reader)?) }
RECURSIVE ReadPeerList(_, _, _)
ReadPeerList(reader, remaining, peer_list) ==
    IF remaining = 0 THEN ReadOk(peer_list, reader)
    ELSE Try(ip_from_bytes(reader), LAMBDA peer :
             ReadPeerList(peer.reader, remaining - 1, Append(peer_list, peer.value)))

\* Faulty variant of Ping::read: neither the pruned topoheight nor the peer
\* count is checked
PingReadUnchecked(reader) ==
    Try(read_hash(reader), LAMBDA top_hash :
    Try(read_u64(top_hash.reader), LAMBDA topo :
    Try(read_u64(topo.reader), LAMBDA height :
    Try(OptionU64Read(height.reader), LAMBDA pruned_topoheight :
    Try(DifficultyRead(pruned_topoheight.reader), LAMBDA cumulative_difficulty :
    Try(read_u8(cumulative_difficulty.reader), LAMBDA peers_len :
    Try(ReadPeerList(peers_len.reader, peers_len.value, <<>>), LAMBDA peer_list :
        ReadOk([top_hash |-> top_hash.value, topoheight |-> topo.value,
                height |-> height.value, pruned_topoheight |-> pruned_topoheight.value,
                cumulative_difficulty |-> cumulative_difficulty.value,
                peer_list |-> peer_list.value],
               peer_list.reader))))))))

\* Ping::read
PingRead(reader) ==
    Try(read_hash(reader), LAMBDA top_hash :
    Try(read_u64(top_hash.reader), LAMBDA topo :
    Try(read_u64(topo.reader), LAMBDA height :
    Try(OptionU64Read(height.reader), LAMBDA pruned_topoheight :
        IF pruned_topoheight.value = Some(0)
        THEN ReadErr("InvalidValue", pruned_topoheight.reader) ELSE
    Try(DifficultyRead(pruned_topoheight.reader), LAMBDA cumulative_difficulty :
    Try(read_u8(cumulative_difficulty.reader), LAMBDA peers_len :
        IF peers_len.value > P2P_PING_PEER_LIST_LIMIT
        THEN ReadErr("InvalidValue", peers_len.reader) ELSE
    Try(ReadPeerList(peers_len.reader, peers_len.value, <<>>), LAMBDA peer_list :
        ReadOk([top_hash |-> top_hash.value, topoheight |-> topo.value,
                height |-> height.value, pruned_topoheight |-> pruned_topoheight.value,
                cumulative_difficulty |-> cumulative_difficulty.value,
                peer_list |-> peer_list.value],
               peer_list.reader))))))))

(***************************************************************************)
(* p2p/packet/mod.rs: the packet envelope                                  *)
(***************************************************************************)
\* All registered packet ids
HANDSHAKE_ID == 0

TX_PROPAGATION_ID == 1

BLOCK_PROPAGATION_ID == 2

CHAIN_REQUEST_ID == 3

CHAIN_RESPONSE_ID == 4

PING_ID == 5

OBJECT_REQUEST_ID == 6

OBJECT_RESPONSE_ID == 7

NOTIFY_INV_REQUEST_ID == 8

NOTIFY_INV_RESPONSE_ID == 9

BOOTSTRAP_CHAIN_REQUEST_ID == 10

BOOTSTRAP_CHAIN_RESPONSE_ID == 11

PEER_DISCONNECTED_ID == 12

\* enum Packet: the variants that wrap their payload with a Ping, and the rest
WrappedVariants ==
    {"TransactionPropagation", "BlockPropagation", "ChainRequest", "NotifyInventoryRequest"}

PlainVariants ==
    {"Handshake", "ChainResponse", "ObjectRequest", "ObjectResponse",
     "NotifyInventoryResponse", "BootstrapChainRequest", "BootstrapChainResponse",
     "PeerDisconnected"}

Variants == WrappedVariants \cup PlainVariants \cup {"Ping"}

\* The payload types other than Hash and Ping (Handshake, BlockHeader,
\* ChainRequest, ...) are one fixed-width field each
Bodies == {<<id>> : id \in 0..MaxBody}

BodyWrite(body) == write_u64(body[1])

BodyRead(reader) == Try(read_u64(reader), LAMBDA id : ReadOk(<<id.value>>, id.reader))

\* T::write and T::read of PacketWrapper<T>: T is Hash for a transaction
\* propagation
PayloadWrite(variant, payload) ==
    IF variant = "TransactionPropagation" THEN write_hash(payload) ELSE BodyWrite(payload)

PayloadRead(variant, reader) ==
    IF variant = "TransactionPropagation" THEN read_hash(reader) ELSE BodyRead(reader)

\* PacketWrapper::write: the packet, then the ping
PacketWrapperWrite(variant, self) ==
    PayloadWrite(variant, self.packet) \o PingWrite(self.ping)

\* Faulty variant of PacketWrapper::read: the ping is read before the packet
PacketWrapperReadPingFirst(variant, reader) ==
    Try(PingRead(reader), LAMBDA ping :
    Try(PayloadRead(variant, ping.reader), LAMBDA packet :
        ReadOk([packet |-> packet.value, ping |-> ping.value], packet.reader)))

\* PacketWrapper::read
PacketWrapperRead(variant, reader) ==
    Try(PayloadRead(variant, reader), LAMBDA packet :
    Try(PingRead(packet.reader), LAMBDA ping :
        ReadOk([packet |-> packet.value, ping |-> ping.value], ping.reader)))

\* Packet::write: the id each variant is written with
PacketId(variant) ==
    CASE variant = "Handshake" -> HANDSHAKE_ID
      [] variant = "TransactionPropagation" -> TX_PROPAGATION_ID
      [] variant = "BlockPropagation" -> BLOCK_PROPAGATION_ID
      [] variant = "ChainRequest" -> CHAIN_REQUEST_ID
      [] variant = "ChainResponse" -> CHAIN_RESPONSE_ID
      [] variant = "Ping" -> PING_ID
      [] variant = "ObjectRequest" -> OBJECT_REQUEST_ID
      [] variant = "ObjectResponse" -> OBJECT_RESPONSE_ID
      [] variant = "NotifyInventoryRequest" -> NOTIFY_INV_REQUEST_ID
      [] variant = "NotifyInventoryResponse" -> NOTIFY_INV_RESPONSE_ID
      [] variant = "BootstrapChainRequest" -> BOOTSTRAP_CHAIN_REQUEST_ID
      [] variant = "BootstrapChainResponse" -> BOOTSTRAP_CHAIN_RESPONSE_ID
      [] variant = "PeerDisconnected" -> PEER_DISCONNECTED_ID

\* serializer.to_bytes() of the variant's content
to_bytes(self) ==
    IF self.variant = "Ping" THEN PingWrite(self.body)
    ELSE IF self.variant \in WrappedVariants THEN PacketWrapperWrite(self.variant, self.body)
    ELSE BodyWrite(self.body)

\* Faulty variant of Packet::write: the length does not count the id byte
PacketWriteBodyLength(self) ==
    LET packet == to_bytes(self)
    IN  write_u32(Len(packet)) \o write_u8(PacketId(self.variant)) \o packet

\* Packet::write
PacketWrite(self) ==
    LET packet == to_bytes(self)
        packet_len == Len(packet) + 1
    IN  write_u32(packet_len) \o write_u8(PacketId(self.variant)) \o packet

\* Packet::read: the variant each id is read as
VariantOfId(id) ==
    CASE id = HANDSHAKE_ID -> "Handshake"
      [] id = TX_PROPAGATION_ID -> "TransactionPropagation"
      [] id = BLOCK_PROPAGATION_ID -> "BlockPropagation"
      [] id = CHAIN_REQUEST_ID -> "ChainRequest"
      [] id = CHAIN_RESPONSE_ID -> "ChainResponse"
      [] id = PING_ID -> "Ping"
      [] id = OBJECT_REQUEST_ID -> "ObjectRequest"
      [] id = OBJECT_RESPONSE_ID -> "ObjectResponse"
      [] id = NOTIFY_INV_REQUEST_ID -> "NotifyInventoryRequest"
      [] id = NOTIFY_INV_RESPONSE_ID -> "NotifyInventoryResponse"
      [] id = BOOTSTRAP_CHAIN_REQUEST_ID -> "BootstrapChainRequest"
      [] id = BOOTSTRAP_CHAIN_RESPONSE_ID -> "BootstrapChainResponse"
      [] id = PEER_DISCONNECTED_ID -> "PeerDisconnected"
      [] OTHER -> "none"

\* The variant's reader
ContentRead(variant, reader) ==
    IF variant = "Ping" THEN PingRead(reader)
    ELSE IF variant \in WrappedVariants THEN PacketWrapperRead(variant, reader)
    ELSE BodyRead(reader)

\* Faulty variant of Packet::read: the reader is left at the end of the buffer
PacketReadDraining(reader) ==
    Try(read_u8(reader), LAMBDA id :
        IF VariantOfId(id.value) = "none" THEN ReadErr("InvalidValue", id.reader)
        ELSE Try(ContentRead(VariantOfId(id.value), id.reader), LAMBDA body :
                 ReadOk([variant |-> VariantOfId(id.value), body |-> body.value],
                        [body.reader EXCEPT !.total = Len(reader.bytes)])))

\* Packet::read
PacketRead(reader) ==
    Try(read_u8(reader), LAMBDA id :
        IF VariantOfId(id.value) = "none" THEN ReadErr("InvalidValue", id.reader)
        ELSE Try(ContentRead(VariantOfId(id.value), id.reader), LAMBDA body :
                 ReadOk([variant |-> VariantOfId(id.value), body |-> body.value],
                        body.reader)))

\* What an error of Packet::read becomes for the connection
AsInvalidPacket(result, reader) ==
    IF result.kind = "Err" THEN ReadErr("InvalidPacket", reader) ELSE result

\* Reading an envelope from a connection: four bytes of length, that many
\* bytes into a buffer, Packet::read on the buffer, which must be read
\* to its end.  The reader returned is the connection's: what follows the
\* envelope stays unread.
read_packet(stream) ==
    Try(read_u32(ReaderNew(stream)), LAMBDA size :
    Try(read_bytes(size.reader, size.value), LAMBDA buf :
    Try(AsInvalidPacket(PacketRead(ReaderNew(buf.value)), buf.reader), LAMBDA packet :
        IF packet.reader.total # Len(buf.value)
        THEN ReadErr("InvalidPacketNotFullRead", buf.reader)
        ELSE ReadOk(packet.value, buf.reader))))

\* The packets written of a variant: a Ping packet for each Ping, a wrapped
\* variant around the pings without peers, another variant with each body
BarePings == {ping \in Pings : ping.peer_list = <<>> /\ ping.cumulative_difficulty = 0}

Payloads(variant) == IF variant = "TransactionPropagation" THEN Hashes ELSE Bodies

PacketsOf(variant) ==
    IF variant = "Ping" THEN {[variant |-> variant, body |-> ping] : ping \in Pings}
    ELSE IF variant \in WrappedVariants
    THEN {[variant |-> variant, body |-> [packet |-> payload, ping |-> ping]] :
            payload \in Payloads(variant), ping \in BarePings}
    ELSE {[variant |-> variant, body |-> body] : body \in Bodies}

(***************************************************************************)
(* serializer/defaults.rs: the containers.  A container reader returns,    *)
(* with its result, the capacity it reserved before reading the elements   *)
(* (with_capacity; a set built with new() reserves none).  The elements    *)
(* are u16 (Vec, BTreeSet, IndexSet) and u8 keys and values (HashMap).     *)
(***************************************************************************)
MAX_ITEMS == 1024

Reserving(result, capacity) ==
    [kind |-> result.kind, value |-> result.value, error |-> result.error,
     reader |-> result.reader, reserved |-> capacity]

\* The loops of the readers.  Every element has the same width, so the i-th
\* element is read where i - 1 elements end; the loops are given by the
\* element they stop at instead of by iteration (a buffer holds up to
\* MAX_ITEMS + 1 elements).
ItemsLeft(reader) == ReaderSize(reader) \div 2

\* T::read for the i-th element: read_u16
ItemAt(reader, i) ==
    from_be_bytes(SubSeq(reader.bytes, reader.total + 2 * i - 1, reader.total + 2 * i))

AfterItems(reader, n) == [reader EXCEPT !.total = @ + 2 * n]

\* for _ in 0..count { let value = T::read(reader)?; if !set.insert(value) { return Err } }
\* The loop stops at the first element that repeats an earlier one or that
\* the buffer does not hold.  The set is the sequence of its elements in
\* insertion order.
ReadSetItems(reader, count) ==
    LET n == IF ItemsLeft(reader) < count THEN ItemsLeft(reader) ELSE count
        items == [i \in 1..n |-> ItemAt(reader, i)]
        repeated == {j \in 1..n : \E i \in 1..(j - 1) : items[i] = items[j]}
    IN  IF repeated # {}
        THEN ReadErr("InvalidSize", AfterItems(reader, MinOf(repeated)))
        ELSE IF n < count THEN ReadErr("InvalidSize", AfterItems(reader, n))
        ELSE ReadOk(items, AfterItems(reader, count))

\* for _ in 0..count { values.push(T::read(reader)?) }
ReadVecItems(reader, count) ==
    IF ItemsLeft(reader) < count
    THEN ReadErr("InvalidSize", AfterItems(reader, ItemsLeft(reader)))
    ELSE ReadOk([i \in 1..count |-> ItemAt(reader, i)], AfterItems(reader, count))

\* for _ in 0..size { let k = K::read(reader)?; let v = V::read(reader)?; map.insert(k, v) }
\* K and V are u8; an insert with a key already there replaces its value
ReadMapItems(reader, size) ==
    IF ItemsLeft(reader) < size
    THEN ReadErr("InvalidSize",
                 [reader EXCEPT !.total = Len(reader.bytes)])
    ELSE LET keyAt(i) == reader.bytes[reader.total + 2 * i - 1]
             valueAt(i) == reader.bytes[reader.total + 2 * i]
             keys == {keyAt(i) : i \in 1..size}
         IN  ReadOk([k \in keys |-> valueAt(MaxOf({i \in 1..size : keyAt(i) = k}))],
                    AfterItems(reader, size))

\* BTreeSet<T>::read: the set read is ordered by Ord, whatever the wire order
BTreeSetRead(reader) ==
    LET count == read_u16(reader)
    IN  IF count.kind = "Err" THEN Reserving(count, 0)
        ELSE IF count.value > MAX_ITEMS THEN Reserving(ReadErr("InvalidSize", count.reader), 0)
        ELSE LET set == ReadSetItems(count.reader, count.value)
             IN  IF set.kind = "Err" THEN Reserving(set, 0)
                 ELSE Reserving(ReadOk(Range(set.value), set.reader), 0)

\* IndexSet<T>::read: the set read keeps the wire order
IndexSetRead(reader) ==
    LET count == read_u16(reader)
    IN  IF count.kind = "Err" THEN Reserving(count, 0)
        ELSE IF count.value > MAX_ITEMS THEN Reserving(ReadErr("InvalidSize", count.reader), 0)
        ELSE Reserving(ReadSetItems(count.reader, count.value), 0)

\* Faulty variant of Vec<T>::read: the count is not checked
VecReadUnchecked(reader) ==
    LET count == read_u16(reader)
    IN  IF count.kind = "Err" THEN Reserving(count, 0)
        ELSE Reserving(ReadVecItems(count.reader, count.value), count.value)

\* Vec<T>::read
VecRead(reader) ==
    LET count == read_u16(reader)
    IN  IF count.kind = "Err" THEN Reserving(count, 0)
        ELSE IF count.value > MAX_ITEMS THEN Reserving(ReadErr("InvalidSize", count.reader), 0)
        ELSE Reserving(ReadVecItems(count.reader, count.value), count.value)

\* HashMap<K, V>::read
HashMapRead(reader) ==
    LET size == read_u16(reader)
    IN  IF size.kind = "Err" THEN Reserving(size, 0)
        ELSE Reserving(ReadMapItems(size.reader, size.value), size.value)

\* The bytes of a sequence of u16 elements, each written by write_u16
ItemsBytes(items) ==
    [i \in 1..(2 * Len(items)) |->
        IF i % 2 = 1 THEN items[(i + 1) \div 2] \div 256 ELSE items[i \div 2] % 256]

\* The buffers a container reader is given: a declared count and the
\* elements that follow it, which may be fewer or more than declared and
\* may repeat
DeclaredCounts == {0, 1, 2, MAX_ITEMS, MAX_ITEMS + 1, 65535}

Distinct(n) == [i \in 1..n |-> i - 1]

ItemLists ==
    SeqsUpTo(0..MaxItem, 2)
        \cup {Distinct(MAX_ITEMS), Distinct(MAX_ITEMS + 1),
              Append(Distinct(MAX_ITEMS - 1), MaxItem)}

ContainerBuffers ==
    {write_u16(count) \o ItemsBytes(items) : count \in DeclaredCounts, items \in ItemLists}

(***************************************************************************)
(* serializer/defaults.rs: HashSet<Hash>, the tips of the chain            *)
(***************************************************************************)
\* HashSet<Hash>::write: the hashes in the iteration order of the set
TipsWrite(order) == Flatten([i \in DOMAIN order |-> write_hash(order[i])])

\* for _ in 0..count { let hash = reader.read_hash()?; tips.insert(hash) }
RECURSIVE ReadTipsItems(_, _, _)
ReadTipsItems(reader, remaining, tips) ==
    IF remaining = 0 THEN ReadOk(tips, reader)
    ELSE LET hash == read_hash(reader)
         IN  IF hash.kind = "Err" THEN hash
             ELSE ReadTipsItems(hash.reader, remaining - 1, tips \cup {hash.value})

\* Faulty variant of HashSet<Hash>::read: a repeated hash is not noticed
TipsReadNoDuplicateCheck(reader) ==
    IF total_size(reader) % HASH_SIZE # 0 THEN ReadErr("InvalidSize", reader)
    ELSE ReadTipsItems(reader, total_size(reader) \div HASH_SIZE, {})

\* HashSet<Hash>::read
TipsRead(reader) ==
    IF total_size(reader) % HASH_SIZE # 0 THEN ReadErr("InvalidSize", reader)
    ELSE LET count == total_size(reader) \div HASH_SIZE
             tips == ReadTipsItems(reader, count, {})
         IN  IF tips.kind = "Err" THEN tips
             ELSE IF Cardinality(tips.value) # count THEN ReadErr("InvalidSize", tips.reader)
             ELSE tips

\* The hash sequences written as a tips blob: the iteration orders of the
\* sets of hashes, and sequences that repeat a hash
TipSequences == SeqsUpTo(Hashes, MaxTips)

(***************************************************************************)
(* The serializer specification: a value is written to a buffer, or a      *)
(* buffer is received; the buffer may lose its end or gain bytes on the    *)
(* way; a reader decodes it.                                               *)
(***************************************************************************)
WireInit ==
    /\ DagIdle
    /\ CacheFresh(0, EmptyStorage)
    /\ PingFresh(EmptyMap)
    /\ WireIdle
    /\ PromptNew
    /\ HandlersIdle

\* Packet::write into an empty buffer
WritePacket ==
    /\ wireOp = "idle"
    /\ \E variant \in Variants : \E packet \in PacketsOf(variant) :
        /\ wireValue' = packet
        /\ wireBytes' = PacketWrite(packet)
    /\ wireOp' = "written"
    /\ wireKind' = "packet"
    /\ UNCHANGED <<wireTamper, wireReader, wireResult, outsideWire>>

\* Ping::write into an empty buffer
WritePing ==
    /\ wireOp = "idle"
    /\ \E ping \in Pings :
        /\ wireValue' = ping
        /\ wireBytes' = PingWrite(ping)
    /\ wireOp' = "written"
    /\ wireKind' = "ping"
    /\ UNCHANGED <<wireTamper, wireReader, wireResult, outsideWire>>

\* HashSet<Hash>::write into an empty buffer: a set, in one of its iteration orders
WriteTips ==
    /\ wireOp = "idle"
    /\ \E order \in TipSequences :
        /\ Cardinality(Range(order)) = Len(order)
        /\ wireValue' = Range(order)
        /\ wireBytes' = TipsWrite(order)
    /\ wireOp' = "written"
    /\ wireKind' = "tips"
    /\ UNCHANGED <<wireTamper, wireReader, wireResult, outsideWire>>

\* A tips blob that was not written from a set: hashes that may repeat
ReceiveTips ==
    /\ wireOp = "idle"
    /\ \E order \in TipSequences : wireBytes' = TipsWrite(order)
    /\ wireOp' = "written"
    /\ wireKind' = "tips"
    /\ wireTamper' = "received"
    /\ UNCHANGED <<wireValue, wireReader, wireResult, outsideWire>>

\* A buffer for a container reader: a declared count and elements
ReceiveItems ==
    /\ wireOp = "idle"
    /\ \E buffer \in ContainerBuffers : wireBytes' = buffer
    /\ wireOp' = "written"
    /\ wireKind' = "items"
    /\ wireTamper' = "received"
    /\ UNCHANGED <<wireValue, wireReader, wireResult, outsideWire>>

\* The bytes that may follow a written buffer
ExtraBytes == {<<0>>, <<255>>, <<0, 0>>}

\* The buffer loses its end: any strict prefix of what was written
Truncate ==
    /\ wireOp = "written"
    /\ wireTamper = "none"
    /\ wireKind \in {"packet", "tips"}
    /\ \E n \in 0..(Len(wireBytes) - 1) : wireBytes' = SubSeq(wireBytes, 1, n)
    /\ wireTamper' = "truncated"
    /\ UNCHANGED <<wireOp, wireKind, wireValue, wireReader, wireResult, outsideWire>>

\* Bytes follow what was written
Extend ==
    /\ wireOp = "written"
    /\ wireTamper = "none"
    /\ wireKind \in {"packet", "tips"}
    /\ \E extra \in ExtraBytes : wireBytes' = wireBytes \o extra
    /\ wireTamper' = "extended"
    /\ UNCHANGED <<wireOp, wireKind, wireValue, wireReader, wireResult, outsideWire>>

\* Bytes follow the body of a packet inside its envelope: the length counts them
Pad ==
    /\ wireOp = "written"
    /\ wireTamper = "none"
    /\ wireKind = "packet"
    /\ \E extra \in ExtraBytes :
        wireBytes' = write_u32(Len(wireBytes) - 4 + Len(extra))
                        \o SubSeq(wireBytes, 5, Len(wireBytes)) \o extra
    /\ wireTamper' = "padded"
    /\ UNCHANGED <<wireOp, wireKind, wireValue, wireReader, wireResult, outsideWire>>

\* A reader decodes the buffer
ReadPacket ==
    /\ wireOp = "written"
    /\ wireKind = "packet"
    /\ wireOp' = "read"
    /\ wireReader' = "read_packet"
    /\ wireResult' = read_packet(wireBytes)
    /\ UNCHANGED <<wireKind, wireValue, wireBytes, wireTamper, outsideWire>>

ReadPing ==
    /\ wireOp = "written"
    /\ wireKind = "ping"
    /\ wireOp' = "read"
    /\ wireReader' = "Ping"
    /\ wireResult' = PingRead(ReaderNew(wireBytes))
    /\ UNCHANGED <<wireKind, wireValue, wireBytes, wireTamper, outsideWire>>

ReadTips ==
    /\ wireOp = "written"
    /\ wireKind = "tips"
    /\ wireOp' = "read"
    /\ wireReader' = "HashSet"
    /\ wireResult' = TipsRead(ReaderNew(wireBytes))
    /\ UNCHANGED <<wireKind, wireValue, wireBytes, wireTamper, outsideWire>>

ReadVec ==
    /\ wireOp = "written"
    /\ wireKind = "items"
    /\ wireOp' = "read"
    /\ wireReader' = "Vec"
    /\ wireResult' = VecRead(ReaderNew(wireBytes))
    /\ UNCHANGED <<wireKind, wireValue, wireBytes, wireTamper, outsideWire>>

ReadBTreeSet ==
    /\ wireOp = "written"
    /\ wireKind = "items"
    /\ wireOp' = "read"
    /\ wireReader' = "BTreeSet"
    /\ wireResult' = BTreeSetRead(ReaderNew(wireBytes))
    /\ UNCHANGED <<wireKind, wireValue, wireBytes, wireTamper, outsideWire>>

ReadIndexSet ==
    /\ wireOp = "written"
    /\ wireKind = "items"
    /\ wireOp' = "read"
    /\ wireReader' = "IndexSet"
    /\ wireResult' = IndexSetRead(ReaderNew(wireBytes))
    /\ UNCHANGED <<wireKind, wireValue, wireBytes, wireTamper, outsideWire>>

ReadHashMap ==
    /\ wireOp = "written"
    /\ wireKind = "items"
    /\ wireOp' = "read"
    /\ wireReader' = "HashMap"
    /\ wireResult' = HashMapRead(ReaderNew(wireBytes))
    /\ UNCHANGED <<wireKind, wireValue, wireBytes, wireTamper, outsideWire>>

\* The buffer is dropped
WireReturn ==
    /\ wireOp = "read"
    /\ wireOp' = "idle"
    /\ wireKind' = "none"
    /\ wireValue' = <<>>
    /\ wireBytes' = <<>>
    /\ wireTamper' = "none"
    /\ wireReader' = "none"
    /\ wireResult' = NoWireResult
    /\ UNCHANGED outsideWire

WireNext ==
    \/ WritePacket
    \/ WritePing
    \/ WriteTips
    \/ ReceiveTips
    \/ ReceiveItems
    \/ Truncate
    \/ Extend
    \/ Pad
    \/ ReadPacket
    \/ ReadPing
    \/ ReadTips
    \/ ReadVec
    \/ ReadBTreeSet
    \/ ReadIndexSet
    \/ ReadHashMap
    \/ WireReturn

SpecWire == WireInit /\ [][WireNext]_vars

(***************************************************************************)
(* Claims about BlockDAG ordering, checked under SpecDag                   *)
(***************************************************************************)
\* The documented order, stated on its own: hash a >= hash b lexicographically
HashGe(a, b) ==
    \/ a = b
    \/ \E k \in DOMAIN a : a[k] > b[k] /\ \A m \in 1..(k - 1) : a[m] = b[m]

\* Element x = (hash, difficulty) may stand before element y
MayPrecede(x, y) == x[2] > y[2] \/ (x[2] = y[2] /\ HashGe(x[1], y[1]))

AllLookupsSucceed == \A h \in Range(dagTips) : dagProvider[h].ok

\* C1: after sort_descending_by_cumulative_difficulty the list is a permutation
\* of the input, and for any positions i < j element i has strictly higher
\* difficulty than element j, or equal difficulty and hash i >= hash j; in
\* particular scores[0].difficulty >= scores[1].difficulty when length >= 2.
C1_SortedDescending ==
    dagOp = "sort_descending_by_cumulative_difficulty" =>
        /\ dagResult.kind = "Ok"
        /\ IsPermutationOf(dagResult.value, dagScores)
        /\ \A i, j \in DOMAIN dagResult.value :
            i < j => MayPrecede(dagResult.value[i], dagResult.value[j])
        /\ Len(dagResult.value) >= 2 => dagResult.value[1][2] >= dagResult.value[2][2]

\* C1's case: a list of three with a tie given lower hash first, which the
\* sort has to reorder
C1_Witness ==
    /\ dagOp = "sort_descending_by_cumulative_difficulty"
    /\ Len(dagScores) = 3
    /\ dagScores[1][2] = dagScores[2][2]
    /\ ~HashGe(dagScores[1][1], dagScores[2][1])
    /\ dagScores[3][2] > dagScores[1][2]
    /\ dagResult.value = <<dagScores[3], dagScores[2], dagScores[1]>>

\* C2: for tips of length >= 2 whose difficulty lookups all succeed, sort_tips
\* returns a list of the same length that is a permutation of tips, by
\* descending cumulative difficulty, the higher hash first on equal difficulty.
C2_SortTipsOrdered ==
    (dagOp = "sort_tips" /\ Len(dagTips) >= 2 /\ AllLookupsSucceed) =>
        /\ dagResult.kind = "Ok"
        /\ Len(dagResult.value) = Len(dagTips)
        /\ IsPermutationOf(dagResult.value, dagTips)
        /\ \A i, j \in DOMAIN dagResult.value :
            i < j => MayPrecede(<<dagResult.value[i], dagProvider[dagResult.value[i]].value>>,
                                <<dagResult.value[j], dagProvider[dagResult.value[j]].value>>)

\* C2's case: tips [H1, H2] at the same difficulty with H2 > H1 give [H2, H1]
C2_Witness ==
    /\ dagOp = "sort_tips"
    /\ Len(dagTips) = 2
    /\ AllLookupsSucceed
    /\ dagTips[1] # dagTips[2]
    /\ HashGe(dagTips[2], dagTips[1])
    /\ dagProvider[dagTips[1]].value = dagProvider[dagTips[2]].value
    /\ dagResult.kind = "Ok"
    /\ dagResult.value = <<dagTips[2], dagTips[1]>>

\* C3: calculate_height_at_tips returns 0 for an empty tips list and, for every
\* non-empty tips list whose height lookups succeed, max height_for(t) + 1.
C3_HeightAtTips ==
    (dagOp = "calculate_height_at_tips" /\ AllLookupsSucceed) =>
        /\ dagResult.kind = "Ok"
        /\ dagTips = <<>> => dagResult.value = 0
        /\ dagTips # <<>> =>
            dagResult.value = MaxOf({dagProvider[h].value : h \in Range(dagTips)}) + 1

\* What the code does give: the same, for heights below u64::MAX
C3_HeightBelowMax ==
    (/\ dagOp = "calculate_height_at_tips"
     /\ AllLookupsSucceed
     /\ \A h \in Range(dagTips) : dagProvider[h].value < MaxU64) =>
        /\ dagResult.kind = "Ok"
        /\ dagTips = <<>> => dagResult.value = 0
        /\ dagTips # <<>> =>
            dagResult.value = MaxOf({dagProvider[h].value : h \in Range(dagTips)}) + 1

\* C4: sort_tips and find_best_tip_by_cumulative_difficulty both return the
\* error ExpectedTips for an empty tips list, and make no lookup.
C4_EmptyTipsRejected ==
    (dagOp \in {"sort_tips", "find_best_tip_by_cumulative_difficulty"} /\ dagTips = <<>>) =>
        /\ dagResult.kind = "Err"
        /\ dagResult.error = "ExpectedTips"
        /\ dagLookups = <<>>

\* C4's case: find_best_tip_by_cumulative_difficulty called with no tips
C4_Witness ==
    /\ dagOp = "find_best_tip_by_cumulative_difficulty"
    /\ dagTips = <<>>
    /\ dagResult.error = "ExpectedTips"

\* C5: sort_tips with exactly one tip returns that list unchanged and makes no
\* storage lookup: it succeeds even when every storage call would fail.
C5_SingleTipVerbatim ==
    (dagOp = "sort_tips" /\ Len(dagTips) = 1) =>
        /\ dagResult.kind = "Ok"
        /\ dagResult.value = dagTips
        /\ dagLookups = <<>>

\* C5's case: one tip whose lookup would fail, returned all the same
C5_Witness ==
    /\ dagOp = "sort_tips"
    /\ Len(dagTips) = 1
    /\ ~dagProvider[dagTips[1]].ok
    /\ dagResult.kind = "Ok"

\* C6: for non-empty tips, find_best_tip_by_cumulative_difficulty returns the
\* first element of sort_tips over the same difficulty data, and fails exactly
\* when sort_tips fails.
C6_BestTipIsFirstSorted ==
    (dagOp = "find_best_tip_by_cumulative_difficulty" /\ dagTips # <<>>) =>
        \A debug \in BOOLEAN :
            LET sorted == sort_tips(dagProvider, dagTips, debug)
            IN  /\ dagResult.kind = sorted.kind
                /\ dagResult.kind \in {"Ok", "Err"}
                /\ dagResult.kind = "Ok" => dagResult.value = sorted.value[1]
                /\ dagResult.kind = "Err" => dagResult.error = sorted.error

\* C6's case: three tips of which the best is not the first given
C6_Witness ==
    /\ dagOp = "find_best_tip_by_cumulative_difficulty"
    /\ Len(dagTips) = 3
    /\ dagResult.kind = "Ok"
    /\ dagResult.value # dagTips[1]
    /\ dagProvider[dagResult.value].value = dagProvider[dagTips[1]].value

\* C7: sort_descending_by_cumulative_difficulty is deterministic: sorting the
\* sorted list again leaves it unchanged, and every reordering of the input
\* sorts to the same sequence.
C7_SortDeterministic ==
    dagOp = "sort_descending_by_cumulative_difficulty" =>
        /\ \A debug \in BOOLEAN :
            sort_descending_by_cumulative_difficulty(dagResult.value, debug).scores
                = dagResult.value
        /\ \A other \in Reorderings(dagScores), debug \in BOOLEAN :
            sort_descending_by_cumulative_difficulty(other, debug).scores = dagResult.value

\* C7's case: an input of three holding a tie between two different hashes,
\* which is not in sorted order
C7_Witness ==
    /\ dagOp = "sort_descending_by_cumulative_difficulty"
    /\ Len(dagScores) = 3
    /\ \E i, j \in DOMAIN dagScores :
        dagScores[i][2] = dagScores[j][2] /\ dagScores[i][1] # dagScores[j][1]
    /\ dagResult.value # dagScores

(***************************************************************************)
(* Claims about the cached verification state, checked under SpecCache     *)
(***************************************************************************)
HasEntry(account, asset) ==
    /\ account \in DOMAIN balances
    /\ asset \in DOMAIN balances[account].inner.balances

C8_GetBalanceOfEntry ==
    \A account \in Accounts, asset \in Assets :
        LET got == get_balance(balances, account, asset)
        IN  /\ got.kind = "Ok"
            /\ HasEntry(account, asset) =>
                /\ lastUpdate[<<account, asset>>] # None
                /\ got.value = lastUpdate[<<account, asset>>][1]
            /\ ~HasEntry(account, asset) => got.value = DefaultCiphertext

\* The (account, asset) entries whose asset-level dirty bit is set
AssetDirty ==
    {pair \in Accounts \X Assets :
        /\ HasEntry(pair[1], pair[2])
        /\ balances[pair[1]].inner.balances[pair[2]].modified}

BalanceCallsFor(pair) ==
    {i \in DOMAIN applyCalls :
        /\ applyCalls[i].fn = "set_last_balance_to"
        /\ applyCalls[i].key = pair[1]
        /\ applyCalls[i].asset = pair[2]}

\* C9: apply_updates(storage, t) issues exactly one set_last_balance_to(account,
\* asset, t, v) for each entry whose asset-level dirty bit is set and none for
\* any other entry or untouched account; v carries the entry's final_balance,
\* output_balance and previous_topoheight.  (A call the storage fails ends
\* apply_updates: then each dirty entry has at most one call.)
C9_CommitWritesDirtySet ==
    phase = "committed" =>
        /\ \A pair \in Accounts \X Assets :
            IF pair \in AssetDirty
            THEN /\ Cardinality(BalanceCallsFor(pair)) <= 1
                 /\ applyResult = "Ok" => Cardinality(BalanceCallsFor(pair)) = 1
            ELSE BalanceCallsFor(pair) = {}
        /\ \A i \in DOMAIN applyCalls :
            applyCalls[i].fn = "set_last_balance_to" =>
                LET entry == balances[applyCalls[i].key].inner.balances[applyCalls[i].asset].inner
                IN  /\ applyCalls[i].topoheight = applyTopoheight
                    /\ applyCalls[i].value.final_balance = entry.final_balance
                    /\ applyCalls[i].value.output_balance = entry.output_balance
                    /\ applyCalls[i].value.previous_topoheight = entry.previous_topoheight

\* C9's case: K1 and K2 in the cache, K2 untouched since hydration, one
\* update_balance on (K1, X), committed above the base topoheight: one write
C9_Witness ==
    /\ phase = "committed"
    /\ applyResult = "Ok"
    /\ DOMAIN balances = {"K1", "K2"}
    /\ ~balances["K2"].modified
    /\ AssetDirty = {<<"K1", "X">>}
    /\ applyTopoheight # topoheight
    /\ Len(applyCalls) = 1
    /\ applyCalls[1].key = "K1"
    /\ applyCalls[1].asset = "X"
    /\ applyCalls[1].value.output_balance = Some("ct1")
    /\ <<"K1", "X", applyTopoheight>> \in DOMAIN persisted.balances

\* C10: after a successful apply_updates(storage, t), storage holds at t the
\* nonce of every dirty nonce entry, and no other nonce entry was written.
C10_CommitWritesDirtyNonces ==
    (phase = "committed" /\ applyResult = "Ok") =>
        \A key \in Accounts :
            IF key \in DOMAIN nonces /\ nonces[key].modified
            THEN /\ <<key, applyTopoheight>> \in DOMAIN persisted.nonces
                 /\ persisted.nonces[<<key, applyTopoheight>>] = nonces[key].inner
            ELSE <<key, applyTopoheight>> \notin DOMAIN persisted.nonces

HasEntryIn(bals, account, asset) ==
    /\ account \in DOMAIN bals
    /\ asset \in DOMAIN bals[account].inner.balances

EntryIn(bals, account, asset) == bals[account].inner.balances[asset].inner

\* C11: update_balance never changes final_balance of any cached entry: an
\* entry that was there keeps its final_balance (and its previous_topoheight),
\* an entry the call creates has the default encrypted-zero final_balance, and
\* the only change is that the updated entry's output_balance becomes
\* Some(new value); every other entry is left as it was.
C11_FinalBalanceKept ==
    [][UpdateBalance =>
        /\ \A account \in Accounts, asset \in Assets :
            /\ HasEntryIn(balances, account, asset) =>
                /\ HasEntryIn(balances', account, asset)
                /\ EntryIn(balances', account, asset).final_balance
                       = EntryIn(balances, account, asset).final_balance
                /\ EntryIn(balances', account, asset).previous_topoheight
                       = EntryIn(balances, account, asset).previous_topoheight
            /\ (~HasEntryIn(balances, account, asset) /\ HasEntryIn(balances', account, asset)) =>
                /\ EntryIn(balances', account, asset).final_balance = DefaultCiphertext
                /\ EntryIn(balances', account, asset).previous_topoheight = None
        /\ \E account \in Accounts, asset \in Assets, ct \in Ciphertexts :
            /\ lastUpdate' = [lastUpdate EXCEPT ![<<account, asset>>] = Some(ct)]
            /\ HasEntryIn(balances', account, asset)
            /\ EntryIn(balances', account, asset).output_balance = Some(ct)
            /\ \A other \in (Accounts \X Assets) \ {<<account, asset>>} :
                /\ HasEntryIn(balances', other[1], other[2])
                       = HasEntryIn(balances, other[1], other[2])
                /\ HasEntryIn(balances, other[1], other[2]) =>
                       EntryIn(balances', other[1], other[2])
                           = EntryIn(balances, other[1], other[2])
    ]_vars

\* C11's case: (K1, X) updated to ct1 and later (K1, Y) updated too: the
\* entry of (K1, X) still holds the encrypted-zero final_balance it was
\* created with, beside its output_balance
C11_Witness ==
    /\ HasEntry("K1", "X")
    /\ HasEntry("K1", "Y")
    /\ EntryIn(balances, "K1", "X").output_balance = Some("ct1")
    /\ EntryIn(balances, "K1", "X").final_balance = DefaultCiphertext
    /\ EntryIn(balances, "K1", "Y").output_balance = Some("ct1")

\* A step of apply_updates: the only operation that ends the staging phase
CommitStep == phase = "staging" /\ phase' = "committed"

\* C12: Updatable<T>: a wrapper built with new(v) (the ones hydration installs)
\* has is_modified() = false; a mutable access (update_balance on the account
\* and asset wrappers, update_account_nonce on the nonce wrapper) sets it to
\* true; read-only access (apply_updates, which reads every wrapper) never
\* changes it; and a wrapper that is modified stays modified under every
\* later read or write of it (every step but a hydration, which replaces
\* wrappers by new ones).
C12_UpdatableDirtyBit ==
    [][/\ \A account \in Accounts, asset \in Assets, ct \in Ciphertexts :
            balances' = update_balance(balances, account, asset, ct) =>
                /\ balances'[account].modified
                /\ balances'[account].inner.balances[asset].modified
       /\ \A account \in Accounts, new_nonce \in Nonces :
            nonces' = update_account_nonce(nonces, account, new_nonce) =>
                nonces'[account].modified
       /\ CommitStep => (balances' = balances /\ nonces' = nonces)
       /\ IF InitFromStorageForTx
          THEN \A key \in DOMAIN balances' :
                   (key \notin DOMAIN balances \/ balances'[key] # balances[key]) =>
                       ~balances'[key].modified
          ELSE /\ \A key \in DOMAIN balances :
                   /\ key \in DOMAIN balances'
                   /\ balances[key].modified => balances'[key].modified
                   /\ \A asset \in DOMAIN balances[key].inner.balances :
                       /\ asset \in DOMAIN balances'[key].inner.balances
                       /\ balances[key].inner.balances[asset].modified =>
                              balances'[key].inner.balances[asset].modified
               /\ \A key \in DOMAIN nonces :
                   /\ key \in DOMAIN nonces'
                   /\ nonces[key].modified => nonces'[key].modified
    ]_vars

\* C12's case: K1 holds a wrapper built by new() and never written, K2 one
\* that was written to, and the nonce wrapper of K1 was written with the
\* value it already had
C12_Witness ==
    /\ DOMAIN balances = {"K1", "K2"}
    /\ ~balances["K1"].modified
    /\ balances["K2"].modified
    /\ "K1" \in DOMAIN nonces
    /\ nonces["K1"].inner = 0
    /\ nonces["K1"].modified

\* A step of init_from_storage_for_tx that returned Ok for a transaction
\* naming `accounts`: every future completed and was inserted
HydratedOk(accounts) ==
    /\ InitFromStorageForTx
    /\ balances' = InsertAccounts(balances, accounts, snapshot, topoheight)

\* What init_for_account fetches for `key` at the cache's base topoheight
FetchedFor(key) ==
    init_for_account(DefaultCachedAccount, snapshot, key, topoheight, FALSE).account

C13_HydrationInstallsEmpty ==
    [][\A accounts \in SUBSET Accounts :
        HydratedOk(accounts) =>
            \A key \in accounts :
                /\ key \in DOMAIN balances'
                /\ balances'[key].inner = DefaultCachedAccount
                /\ ~balances'[key].modified
    ]_vars

C14_HydrationLeavesNonces == [][InitFromStorageForTx => nonces' = nonces]_vars

\* C15: apply_updates returns the first storage error it meets and stops: the
\* failing call is the last one issued, the writes answered before it are in
\* storage (no rollback), and the error returned is the one the storage gave.
C15_FirstErrorStops ==
    phase = "committed" =>
        /\ Len(applyAnswers) = Len(applyCalls)
        /\ applyResult = "Ok" => \A i \in DOMAIN applyAnswers : applyAnswers[i] = "Ok"
        /\ applyResult # "Ok" =>
            /\ applyCalls # <<>>
            /\ applyResult \in StorageErrors
            /\ Last(applyAnswers) = applyResult
            /\ \A i \in 1..(Len(applyCalls) - 1) :
                /\ applyAnswers[i] = "Ok"
                /\ LET at == <<applyCalls[i].key, applyCalls[i].asset, applyCalls[i].topoheight>>
                   IN  /\ at \in DOMAIN persisted.balances
                       /\ persisted.balances[at] = applyCalls[i].value
            /\ Cardinality(DOMAIN persisted.balances) = Len(applyCalls) - 1

\* C15's case: three dirty entries, the second write fails with an error:
\* the first write is in storage, the third was never issued
C15_Witness ==
    /\ phase = "committed"
    /\ Cardinality(AssetDirty) = 3
    /\ applyResult = "StorageErrorB"
    /\ Len(applyCalls) = 2
    /\ applyAnswers = <<"Ok", "StorageErrorB">>
    /\ Cardinality(DOMAIN persisted.balances) = 1

\* C16: get_account_nonce(account) returns 0 when the account has no cached
\* nonce and otherwise the value of the most recent update_account_nonce for
\* that account; update_account_nonce inserts the entry if missing and always
\* leaves it dirty, including when the new value equals the old one.
C16_NonceReadsLatestUpdate ==
    \A account \in Accounts :
        LET got == get_account_nonce(nonces, account)
        IN  /\ got.kind = "Ok"
            /\ account \notin DOMAIN nonces => got.value = 0
            /\ (lastNonce[account] = None) = (account \notin DOMAIN nonces)
            /\ lastNonce[account] # None =>
                /\ got.value = lastNonce[account][1]
                /\ nonces[account].modified

\* C16's case: update_account_nonce(K1, 0) on an account without entry (the
\* value written is the default the entry was inserted with) and
\* update_account_nonce(K2, 1); K1 reads 0 from a dirty entry
C16_Witness ==
    /\ lastNonce["K1"] = Some(0)
    /\ lastNonce["K2"] = Some(1)
    /\ nonces["K1"].modified
    /\ get_account_nonce(nonces, "K1").value = 0
    /\ get_account_nonce(nonces, "K2").value = 1

(***************************************************************************)
(* Claims about Ping::update_peer, checked under SpecPing                  *)
(***************************************************************************)
\* A step of update_peer: peerState is the peer before the call, pingMsg' the
\* Ping, peerState' the peer after it and pingResult' what it returned
UpdatePeerStep == pingOp = "idle" /\ pingOp' = "update_peer"

Rejected(result) == result.kind = "Err" /\ result.error = "InvalidProtocolRules"

\* C17: when update_peer receives a Ping without pruned_topoheight for a peer
\* that is known pruned, it returns InvalidProtocolRules and leaves the peer
\* state unchanged: top_hash, topoheight, height, pruned_topoheight,
\* cumulative_difficulty and the peer-set keep the values they had.
C17_UnpruneLeavesPeerUnchanged ==
    [][(/\ UpdatePeerStep
        /\ peerState.pruned_topoheight # None
        /\ pingMsg'.pruned_topoheight = None) =>
            /\ Rejected(pingResult')
            /\ peerState'.top_hash = peerState.top_hash
            /\ peerState'.topoheight = peerState.topoheight
            /\ peerState'.height = peerState.height
            /\ peerState'.pruned_topoheight = peerState.pruned_topoheight
            /\ peerState'.cumulative_difficulty = peerState.cumulative_difficulty
            /\ peerState'.peers = peerState.peers
    ]_vars

\* What the code does give: the Ping is rejected, and pruned_topoheight,
\* cumulative_difficulty and the peer-set are kept; top_hash, topoheight and
\* height are the Ping's
C17_UnpruneRejected ==
    [][(/\ UpdatePeerStep
        /\ peerState.pruned_topoheight # None
        /\ pingMsg'.pruned_topoheight = None) =>
            /\ Rejected(pingResult')
            /\ peerState'.top_hash = pingMsg'.top_hash
            /\ peerState'.topoheight = pingMsg'.topoheight
            /\ peerState'.height = pingMsg'.height
            /\ peerState'.pruned_topoheight = peerState.pruned_topoheight
            /\ peerState'.cumulative_difficulty = peerState.cumulative_difficulty
            /\ peerState'.peers = peerState.peers
    ]_vars

\* C18: update_peer returns InvalidProtocolRules whenever the Ping's
\* pruned_topoheight is present and greater than the Ping's topoheight, or is
\* present and less than the peer's stored pruned_topoheight; when neither
\* holds (and the un-prune rule passes) it stores the Ping's
\* pruned_topoheight and cumulative_difficulty on the peer.
C18_PrunedBounds ==
    [][UpdatePeerStep =>
        LET new == pingMsg'.pruned_topoheight
            old == peerState.pruned_topoheight
            above == new # None /\ new[1] > pingMsg'.topoheight
            below == new # None /\ old # None /\ new[1] < old[1]
            unprune == old # None /\ new = None
        IN  /\ (above \/ below) =>
                /\ Rejected(pingResult')
                /\ peerState'.pruned_topoheight = old
                /\ peerState'.cumulative_difficulty = peerState.cumulative_difficulty
            /\ (~above /\ ~below /\ ~unprune) =>
                /\ peerState'.pruned_topoheight = new
                /\ peerState'.cumulative_difficulty = pingMsg'.cumulative_difficulty
    ]_vars

\* C18's case: a peer pruned at 1 sends a Ping at topoheight 1 with
\* pruned_topoheight 0, below the stored one: rejected at line 73, the stored
\* pruned topoheight kept
C18_Witness ==
    /\ pingOp = "update_peer"
    /\ pingMsg.pruned_topoheight = Some(0)
    /\ pingMsg.topoheight = 1
    /\ peerState.pruned_topoheight = Some(1)
    /\ Rejected(pingResult)
    /\ pingResult.line = 73

\* C19: update_peer returns InvalidProtocolRules for every Ping whose peer
\* list contains the sending peer's own connection address or its advertised
\* outgoing address, at any position in the list.
C19_OwnAddressRejected ==
    [][(/\ UpdatePeerStep
        /\ \E i \in DOMAIN pingMsg'.peer_list :
            pingMsg'.peer_list[i] \in {peerState.connection_address,
                                       peerState.outgoing_address}) =>
            Rejected(pingResult')
    ]_vars

\* C19's case: the peer's outgoing address 1.2.3.4:5000 listed second, after
\* the address of another node; the Ping passes the pruned checks and is
\* rejected at line 98
C19_Witness ==
    /\ pingOp = "update_peer"
    /\ Len(pingMsg.peer_list) = 2
    /\ pingMsg.peer_list[1] \notin {ConnectionAddress, OutgoingAddress}
    /\ pingMsg.peer_list[2] = "1.2.3.4:5000"
    /\ peerState.outgoing_address = "1.2.3.4:5000"
    /\ Rejected(pingResult)
    /\ pingResult.line = 98

\* C20: peer-list merging in update_peer: an address not yet in the peer-set
\* is inserted with direction In; an address already in it is accepted only
\* if update_allow_in(Direction::In) returns true, otherwise the call returns
\* InvalidProtocolRules.  So an address the peer already reported (In), sent
\* again in a later Ping or twice inside one Ping, is rejected, and after an
\* accepted Ping every listed address is in the peer-set.
C20_PeerListMerging ==
    [][UpdatePeerStep =>
        LET list == pingMsg'.peer_list
            before == peerState.peers
            after == peerState'.peers
        IN  /\ pingResult'.kind = "Ok" =>
                /\ \A addr \in Range(list) :
                    /\ addr \in DOMAIN after
                    /\ addr \notin DOMAIN before => after[addr] = "In"
                    /\ addr \in DOMAIN before =>
                        /\ update_allow_in(before[addr], "In").allowed
                        /\ after[addr] = update_allow_in(before[addr], "In").direction
                /\ \A addr \in DOMAIN after \ Range(list) :
                    addr \in DOMAIN before /\ after[addr] = before[addr]
            /\ (\E addr \in Range(list) : addr \in DOMAIN before /\ before[addr] = "In") =>
                Rejected(pingResult')
            /\ (\E i, j \in DOMAIN list : i # j /\ list[i] = list[j]) =>
                Rejected(pingResult')
    ]_vars

\* C20's case: one Ping listing the same address twice: the address is in
\* the peer-set with direction In and its repetition is rejected at line 106
C20_Witness ==
    /\ pingOp = "update_peer"
    /\ Len(pingMsg.peer_list) = 2
    /\ pingMsg.peer_list[1] = pingMsg.peer_list[2]
    /\ pingResult.line = 106
    /\ peerState.peers[pingMsg.peer_list[1]] = "In"
    /\ Rejected(pingResult)

(***************************************************************************)
(* Claims about the serializer and the packet envelope, checked under      *)
(* SpecWire                                                                *)
(***************************************************************************)
\* A reader has decoded the buffer
WasRead(reader) == wireOp = "read" /\ wireReader = reader

\* C21: decoding a Ping whose wire peer count exceeds P2P_PING_PEER_LIST_LIMIT
\* yields InvalidValue, and so does decoding a Ping whose pruned_topoheight is
\* present with value 0; in both cases no Ping value is produced.
C21_PingDecodingLimits ==
    WasRead("Ping") =>
        ((\/ Len(wireValue.peer_list) % 256 > P2P_PING_PEER_LIST_LIMIT
          \/ wireValue.pruned_topoheight = Some(0)) =>
            /\ wireResult.kind = "Err"
            /\ wireResult.error = "InvalidValue"
            /\ wireResult.value = <<>>)

\* A Ping with a valid pruned topoheight and one peer too many was decoded
C21_Witness ==
    /\ WasRead("Ping")
    /\ Len(wireValue.peer_list) = P2P_PING_PEER_LIST_LIMIT + 1
    /\ wireValue.pruned_topoheight = Some(1)
    /\ wireResult.error = "InvalidValue"

\* An envelope was read as it was written
ReadAsWritten == WasRead("read_packet") /\ wireTamper = "none"

\* The packet carries a Ping that Ping::read refuses
CarriesRefusedPing(packet) ==
    /\ packet.variant \in WrappedVariants \cup {"Ping"}
    /\ LET ping == IF packet.variant = "Ping" THEN packet.body ELSE packet.body.ping
       IN  \/ ping.pruned_topoheight = Some(0)
           \/ Len(ping.peer_list) > P2P_PING_PEER_LIST_LIMIT

\* C22: envelope round-trip: for every Packet variant p, decoding the bytes
\* produced by encoding p returns a packet equal to p (same variant, same fields).
C22_EnvelopeRoundTrip ==
    ReadAsWritten => (wireResult.kind = "Ok" /\ wireResult.value = wireValue)

\* What the code does give: the round trip of every packet but those that
\* carry a Ping with pruned_topoheight Some(0) or with more peers than the
\* limit, which are written and then refused by the reader
C22_RoundTripButRefusedPings ==
    ReadAsWritten =>
        IF CarriesRefusedPing(wireValue)
        THEN wireResult.kind = "Err" /\ wireResult.error = "InvalidPacket"
        ELSE wireResult.kind = "Ok" /\ wireResult.value = wireValue

\* The tag table
TagTable ==
    [variant \in Variants |->
        CASE variant = "Handshake" -> 0
          [] variant = "TransactionPropagation" -> 1
          [] variant = "BlockPropagation" -> 2
          [] variant = "ChainRequest" -> 3
          [] variant = "ChainResponse" -> 4
          [] variant = "Ping" -> 5
          [] variant = "ObjectRequest" -> 6
          [] variant = "ObjectResponse" -> 7
          [] variant = "NotifyInventoryRequest" -> 8
          [] variant = "NotifyInventoryResponse" -> 9
          [] variant = "BootstrapChainRequest" -> 10
          [] variant = "BootstrapChainResponse" -> 11
          [] variant = "PeerDisconnected" -> 12]

\* The buffer holds a packet as Packet::write wrote it
HoldsWrittenPacket == wireKind = "packet" /\ wireTamper = "none"

\* C23: every packet written by Packet::write is exactly [u32 length][u8 tag]
\* [body], where length = body length + 1 (it counts the tag byte), the
\* encoded size is 4 + 1 + body length, and the tag is the fixed value of the
\* variant in the tag table; the reader dispatches each tag to the same variant.
C23_EnvelopeLayout ==
    HoldsWrittenPacket =>
        LET body == to_bytes(wireValue)
            read == PacketRead(ReaderNew(SubSeq(wireBytes, 5, Len(wireBytes))))
        IN  /\ Len(wireBytes) = 4 + 1 + Len(body)
            /\ from_be_bytes(SubSeq(wireBytes, 1, 4)) = Len(body) + 1
            /\ wireBytes[5] = TagTable[wireValue.variant]
            /\ SubSeq(wireBytes, 6, Len(wireBytes)) = body
            /\ read.kind = "Ok" => read.value.variant = wireValue.variant
            /\ ~CarriesRefusedPing(wireValue) => read.kind = "Ok"

\* A PeerDisconnected packet was written with tag 12 and read as PeerDisconnected
C23_Witness ==
    /\ HoldsWrittenPacket
    /\ WasRead("read_packet")
    /\ wireValue.variant = "PeerDisconnected"
    /\ wireBytes[5] = 12
    /\ wireResult.kind = "Ok"
    /\ wireResult.value.variant = "PeerDisconnected"

ContainerWasRead == wireOp = "read" /\ wireKind = "items"

DeclaredCount == from_be_bytes(SubSeq(wireBytes, 1, 2))

\* The reader refused the count, having read no element
RefusedTheCount ==
    /\ wireResult.kind = "Err"
    /\ wireResult.error = "InvalidSize"
    /\ wireResult.reader.total = 2

\* C25: every container reader validates the declared element count before
\* allocating or reading elements: for Vec, BTreeSet, IndexSet and HashMap
\* alike, a declared u16 count greater than MAX_ITEMS is rejected with
\* InvalidSize, and no reader reserves capacity for more than MAX_ITEMS elements.
C25_CountValidated ==
    ContainerWasRead =>
        /\ DeclaredCount > MAX_ITEMS => RefusedTheCount
        /\ wireResult.reserved <= MAX_ITEMS

\* What the code does give: Vec, BTreeSet and IndexSet refuse a count above
\* MAX_ITEMS before reserving or reading; HashMap reserves whatever count is
\* declared and reads that many entries
C25_CountValidatedButHashMap ==
    ContainerWasRead =>
        IF wireReader = "HashMap"
        THEN /\ wireResult.reserved = DeclaredCount
             /\ wireResult.kind = "Ok" <=> 2 * DeclaredCount <= Len(wireBytes) - 2
        ELSE /\ DeclaredCount > MAX_ITEMS => RefusedTheCount
             /\ wireResult.reserved <= MAX_ITEMS

\* The i-th element of the buffer, the number of whole elements it holds, and
\* the elements a reader of the declared count gets to
ElementOnWire(i) == wireBytes[2 * i + 1] * 256 + wireBytes[2 * i + 2]

ElementsOnWire == (Len(wireBytes) - 2) \div 2

ElementsInReach == IF DeclaredCount < ElementsOnWire THEN DeclaredCount ELSE ElementsOnWire

\* The elements in reach that repeat an earlier one
RepeatedOnWire ==
    {j \in 1..ElementsInReach : \E i \in 1..(j - 1) : ElementOnWire(i) = ElementOnWire(j)}

\* C26: reading a Vec, BTreeSet or IndexSet whose declared count is greater
\* than MAX_ITEMS fails, and reading a BTreeSet or IndexSet whose elements
\* contain a duplicate fails (InvalidSize) at the first repeated element; a
\* count of exactly MAX_ITEMS with distinct elements is accepted.
C26_OversizeAndDuplicatesRejected ==
    (ContainerWasRead /\ wireReader \in {"Vec", "BTreeSet", "IndexSet"}) =>
        /\ DeclaredCount > MAX_ITEMS => wireResult.kind = "Err"
        /\ (/\ wireReader \in {"BTreeSet", "IndexSet"}
            /\ DeclaredCount <= MAX_ITEMS
            /\ RepeatedOnWire # {}) =>
                /\ wireResult.kind = "Err"
                /\ wireResult.error = "InvalidSize"
                /\ wireResult.reader.total = 2 + 2 * MinOf(RepeatedOnWire)
        /\ (/\ DeclaredCount = MAX_ITEMS
            /\ ElementsOnWire >= MAX_ITEMS
            /\ RepeatedOnWire = {}) =>
                /\ wireResult.kind = "Ok"
                /\ IF wireReader = "BTreeSet"
                   THEN wireResult.value = {ElementOnWire(i) : i \in 1..MAX_ITEMS}
                   ELSE wireResult.value = [i \in 1..MAX_ITEMS |-> ElementOnWire(i)]

\* A BTreeSet of MAX_ITEMS declared elements was refused at its last element,
\* the first to repeat an earlier one
C26_Witness ==
    /\ ContainerWasRead
    /\ wireReader = "BTreeSet"
    /\ DeclaredCount = MAX_ITEMS
    /\ RepeatedOnWire = {MAX_ITEMS}
    /\ wireResult.error = "InvalidSize"
    /\ wireResult.reader.total = 2 + 2 * MAX_ITEMS

\* The i-th 32-byte chunk of the buffer, as a hash
ChunkOnWire(i) == HashFromBytes(SubSeq(wireBytes, HASH_SIZE * (i - 1) + 1, HASH_SIZE * i))

\* C27: reading the tip-set blob (HashSet<Hash>): the whole buffer is taken as
\* consecutive 32-byte hashes with no length prefix; a buffer whose length is
\* not a multiple of 32 is rejected with InvalidSize, a buffer containing the
\* same hash twice is rejected with InvalidSize, and otherwise the result is
\* exactly the set of the length/32 chunks, so writing a set and reading it
\* back gives the same set.
C27_TipsBlob ==
    WasRead("HashSet") =>
        LET chunks == Len(wireBytes) \div 32
        IN  /\ IF \/ Len(wireBytes) % 32 # 0
                  \/ \E i, j \in 1..chunks : i # j /\ ChunkOnWire(i) = ChunkOnWire(j)
               THEN /\ wireResult.kind = "Err"
                    /\ wireResult.error = "InvalidSize"
               ELSE /\ wireResult.kind = "Ok"
                    /\ wireResult.value = {ChunkOnWire(i) : i \in 1..chunks}
                    /\ wireResult.reader.total = Len(wireBytes)
            /\ wireTamper = "none" =>
                (wireResult.kind = "Ok" /\ wireResult.value = wireValue)

\* A set of two tips was written and read back
C27_Witness ==
    /\ WasRead("HashSet")
    /\ wireTamper = "none"
    /\ Cardinality(wireValue) = 2
    /\ Len(wireBytes) = 64
    /\ wireResult.kind = "Ok"
    /\ wireResult.value = wireValue

(***************************************************************************)
(* The terminal prompt (prompt/mod.rs).  One Prompt, its ioloop thread,    *)
(* one Prompt::start call, two read_input callers, cancel_read_input and   *)
(* the drop of the Prompt.  A step is one critical section or one atomic   *)
(* operation; the threads interleave between steps.  Mutexes are never     *)
(* poisoned and stdout never fails: no `?` of these functions returns      *)
(* early on an IO or Poison error.                                         *)
(***************************************************************************)
Keys == {"a"}

Prompts == 1..MaxPrompt

Canceled == [kind |-> "Canceled", value |-> <<>>]

NotRunning == [kind |-> "NotRunning", value |-> <<>>]

InputOk(line) == [kind |-> "Ok", value |-> line]

\* oneshot::Sender::send: the value is held for the receiver; when the receiver
\* was dropped the send fails and nothing is left of the channel
OneshotSend(channel, line) ==
    IF channel.state = "open" THEN [state |-> "sent", value |-> line] ELSE NoChannel

\* dropping the oneshot::Receiver (with the value, when one was sent) while the
\* Sender may still be held
OneshotClose(channel) == [state |-> "closed", value |-> <<>>]

\* a call that returned: its locals are gone, its result is kept
Returned(input) == [NoCall EXCEPT !.pc = "returned", !.input = input]

\* Faulty variant of lines 562-568: the lock is taken without waiting for it
\* to be free
ReadInputLockNotExclusive(reader) ==
    /\ dropper = "alive"
    /\ readers[reader].pc = "idle"
    /\ IF has_exited
         THEN /\ readers' = [readers EXCEPT ![reader] = Returned(NotRunning)]
              /\ UNCHANGED read_input_lock
         ELSE /\ readers' = [readers EXCEPT ![reader] = [@ EXCEPT !.pc = "checked"]]
              /\ read_input_lock' = Some(reader)
    /\ UNCHANGED <<terminalVars, lineVars, prompt_sender, oneshot, read_input_channel,
                   ioloop, starter, dropper, outsidePrompt>>

\* lines 562-568: `self.read_input_receiver.lock().await` takes the lock once it
\* is free, then has_exited is loaded; NotRunning when it is set (the guard
\* `canceler` is dropped by the return)
ReadInputLock(reader) ==
    /\ dropper = "alive"
    /\ readers[reader].pc = "idle"
    /\ read_input_lock = None
    /\ IF has_exited
         THEN /\ readers' = [readers EXCEPT ![reader] = Returned(NotRunning)]
              /\ UNCHANGED read_input_lock
         ELSE /\ readers' = [readers EXCEPT ![reader] = [@ EXCEPT !.pc = "checked"]]
              /\ read_input_lock' = Some(reader)
    /\ UNCHANGED <<terminalVars, lineVars, prompt_sender, oneshot, read_input_channel,
                   ioloop, starter, dropper, outsidePrompt>>

\* lines 570-576: a new oneshot channel, its Sender stored in prompt_sender
ReadInputRegister(reader) ==
    /\ readers[reader].pc = "checked"
    /\ prompt_sender' = Some(reader)
    /\ oneshot' = [oneshot EXCEPT ![reader] = [state |-> "open", value |-> <<>>]]
    /\ readers' = [readers EXCEPT ![reader] = [@ EXCEPT !.pc = "registered"]]
    /\ UNCHANGED <<terminalVars, lineVars, read_input_channel, read_input_lock,
                   ioloop, starter, dropper, outsidePrompt>>

\* lines 578-589: the previous prompt and the previous user input are kept, the
\* user input is cleared, the mask is set when apply_mask is
ReadInputSave(reader) ==
    /\ readers[reader].pc = "registered"
    /\ \E apply_mask \in BOOLEAN :
        /\ readers' = [readers EXCEPT ![reader] =
                [@ EXCEPT !.pc = "saved", !.apply_mask = apply_mask,
                          !.old_prompt = prompt, !.old_user_input = user_input]]
        /\ mask_input' = (apply_mask \/ mask_input)
    /\ user_input' = <<>>
    /\ UNCHANGED <<terminalVars, prompt, channelVars, ioloop, starter, dropper, outsidePrompt>>

\* update_prompt (lines 491-499), called at line 592 and by Prompt::start
update_prompt(msg) == Some(msg)

\* line 592: the prompt becomes the one the caller asked for
ReadInputPrompt(reader) ==
    /\ readers[reader].pc = "saved"
    /\ \E message \in Prompts : prompt' = update_prompt(message)
    /\ readers' = [readers EXCEPT ![reader] = [@ EXCEPT !.pc = "waiting"]]
    /\ UNCHANGED <<terminalVars, user_input, mask_input, channelVars,
                   ioloop, starter, dropper, outsidePrompt>>

\* cancel_read_input (lines 555-558): the send completes when channel(1) has
\* room.  `cancelled` records that it completed while the reader was waiting
\* for user input, `issued` that it completed at any point of the reader's call.
CancelReadInput ==
    /\ dropper = "alive"
    /\ read_input_channel < 1
    /\ read_input_channel' = read_input_channel + 1
    /\ readers' = [reader \in Readers |->
            [readers[reader] EXCEPT
                !.cancelled = @ \/ (readers[reader].pc = "waiting" /\ oneshot[reader].state = "open"),
                !.issued = @ \/ readers[reader].pc \notin {"idle", "returned"}]]
    /\ UNCHANGED <<terminalVars, lineVars, prompt_sender, oneshot, read_input_lock,
                   ioloop, starter, dropper, outsidePrompt>>

\* select!, first branch (line 595): `Some(()) = canceler.recv()` is ready; the
\* other branch's future, the oneshot Receiver, is dropped before the handler runs
ReadInputCanceled(reader) ==
    /\ readers[reader].pc = "waiting"
    /\ read_input_channel > 0
    /\ read_input_channel' = read_input_channel - 1
    /\ oneshot' = [oneshot EXCEPT ![reader] = OneshotClose(@)]
    /\ readers' = [readers EXCEPT ![reader] = [@ EXCEPT !.pc = "canceling"]]
    /\ UNCHANGED <<terminalVars, lineVars, prompt_sender, read_input_lock,
                   ioloop, starter, dropper, outsidePrompt>>

\* the handler of the first branch (lines 596-597): whatever Sender is
\* registered is taken and dropped
ReadInputTake(reader) ==
    /\ readers[reader].pc = "canceling"
    /\ prompt_sender' = None
    /\ oneshot' = [oneshot EXCEPT ![reader] = NoChannel]
    /\ readers' = [readers EXCEPT ![reader] = [@ EXCEPT !.pc = "selected", !.input = Canceled]]
    /\ UNCHANGED <<terminalVars, lineVars, read_input_channel, read_input_lock,
                   ioloop, starter, dropper, outsidePrompt>>

\* select!, second branch (line 599): the oneshot Receiver is ready.  When both
\* branches are ready select! takes either.
ReadInputReceived(reader) ==
    /\ readers[reader].pc = "waiting"
    /\ oneshot[reader].state = "sent"
    /\ readers' = [readers EXCEPT ![reader] =
            [@ EXCEPT !.pc = "selected", !.input = InputOk(oneshot[reader].value)]]
    /\ oneshot' = [oneshot EXCEPT ![reader] = NoChannel]
    /\ UNCHANGED <<terminalVars, lineVars, prompt_sender, read_input_channel, read_input_lock,
                   ioloop, starter, dropper, outsidePrompt>>

\* lines 603-616: the mask is cleared, the old user input and the old prompt
\* are put back, `input` is returned and the guard `canceler` is dropped
ReadInputReturn(reader) ==
    /\ readers[reader].pc = "selected"
    /\ mask_input' = (mask_input /\ ~readers[reader].apply_mask)
    /\ user_input' = readers[reader].old_user_input
    /\ prompt' = readers[reader].old_prompt
    /\ read_input_lock' = None
    /\ readers' = [readers EXCEPT ![reader] = Returned(@.input)]
    /\ UNCHANGED <<terminalVars, prompt_sender, oneshot, read_input_channel,
                   ioloop, starter, dropper, outsidePrompt>>

\* State::ioloop, line 150: the thread's first act is enable_raw_mode
IoloopEnable ==
    /\ ioloop = "spawned"
    /\ ioloop' = "reading"
    /\ raw_mode' = TRUE
    /\ UNCHANGED <<has_exited, disabled, lineVars, channelVars,
                   readers, starter, dropper, outsidePrompt>>

\* KeyCode::Char (lines 215-225), other than CTRL+C
KeyChar ==
    /\ ioloop = "reading"
    /\ Len(user_input) < MaxInput
    /\ \E key \in Keys : user_input' = Append(user_input, key)
    /\ UNCHANGED <<terminalVars, prompt, mask_input, channelVars, callVars, outsidePrompt>>

\* KeyCode::Backspace (lines 226-232)
KeyBackspace ==
    /\ ioloop = "reading"
    /\ user_input # <<>>
    /\ user_input' = Front(user_input)
    /\ UNCHANGED <<terminalVars, prompt, mask_input, channelVars, callVars, outsidePrompt>>

\* The command channel's Receiver is gone once Prompt::start has returned (it
\* took it at lines 408-411) or the Prompt was dropped
CommandReceiverDropped == starter = "returned" \/ dropper = "dropped"

\* KeyCode::Enter (lines 233-257): the line goes to the registered reader, or
\* else, when it is not empty, to the command handler; a failed send breaks the loop
KeyEnter ==
    /\ ioloop = "reading"
    /\ user_input' = <<>>
    /\ IF prompt_sender # None
         THEN /\ prompt_sender' = None
              /\ oneshot' = [oneshot EXCEPT ![prompt_sender[1]] = OneshotSend(@, user_input)]
              /\ ioloop' = IF oneshot[prompt_sender[1]].state = "open" THEN "reading" ELSE "exiting"
         ELSE /\ UNCHANGED <<prompt_sender, oneshot>>
              /\ ioloop' = IF user_input # <<>> /\ CommandReceiverDropped
                             THEN "exiting" ELSE "reading"
    /\ UNCHANGED <<terminalVars, prompt, mask_input, read_input_channel, read_input_lock,
                   readers, starter, dropper, outsidePrompt>>

\* CTRL+C (lines 218-220) or a failed event::read (lines 265-268) breaks the loop
IoloopBreak ==
    /\ ioloop = "reading"
    /\ ioloop' = "exiting"
    /\ UNCHANGED <<terminalVars, lineVars, channelVars, readers, starter, dropper, outsidePrompt>>

\* AtomicBool::swap(true, SeqCst): the flag is set, its previous value returned
has_exited_swap == [previous |-> has_exited, flag |-> TRUE]

\* line 272: `if !self.has_exited.swap(true, SeqCst)`
IoloopSwap ==
    /\ ioloop = "exiting"
    /\ has_exited' = has_exited_swap.flag
    /\ ioloop' = IF has_exited_swap.previous THEN "draining" ELSE "disabling"
    /\ UNCHANGED <<raw_mode, disabled, lineVars, channelVars,
                   readers, starter, dropper, outsidePrompt>>

\* line 273: terminal::disable_raw_mode()
IoloopDisable ==
    /\ ioloop = "disabling"
    /\ raw_mode' = FALSE
    /\ disabled' = disabled + 1
    /\ ioloop' = "draining"
    /\ UNCHANGED <<has_exited, lineVars, channelVars, readers, starter, dropper, outsidePrompt>>

\* lines 278-286: a registered reader is sent the empty line, the thread ends
IoloopDrain ==
    /\ ioloop = "draining"
    /\ prompt_sender' = None
    /\ oneshot' = IF prompt_sender = None THEN oneshot
                  ELSE [oneshot EXCEPT ![prompt_sender[1]] = OneshotSend(@, <<>>)]
    /\ ioloop' = "stopped"
    /\ UNCHANGED <<terminalVars, lineVars, read_input_channel, read_input_lock,
                   readers, starter, dropper, outsidePrompt>>

\* Prompt::start, lines 397-413: the exit channel is set up, the command
\* Receiver taken, the loop entered
StartBegin ==
    /\ dropper = "alive"
    /\ starter = "idle"
    /\ starter' = "running"
    /\ UNCHANGED <<terminalVars, lineVars, channelVars, readers, ioloop, dropper, outsidePrompt>>

\* interval.tick(), lines 443-450: nothing is done while a reader is registered
StartTick ==
    /\ starter = "running"
    /\ prompt_sender = None
    /\ starter' = "ticking"
    /\ UNCHANGED <<terminalVars, lineVars, channelVars, readers, ioloop, dropper, outsidePrompt>>

\* lines 451-459: fn_message gives the new prompt, or times out
StartUpdatePrompt ==
    /\ starter = "ticking"
    /\ starter' = "running"
    /\ \/ \E message \in Prompts : prompt' = update_prompt(message)
       \/ UNCHANGED prompt
    /\ UNCHANGED <<terminalVars, user_input, mask_input, channelVars,
                   readers, ioloop, dropper, outsidePrompt>>

\* the loop breaks (lines 416-441): exit signal of Prompt::stop, CTRL+C,
\* CommandError::Exit, or the command channel closed
StartBreak ==
    /\ starter = "running"
    /\ starter' = "exiting"
    /\ UNCHANGED <<terminalVars, lineVars, channelVars, readers, ioloop, dropper, outsidePrompt>>

\* line 470: `if !self.state.has_exited.swap(true, SeqCst)`; line 476 otherwise
StartSwap ==
    /\ starter = "exiting"
    /\ has_exited' = has_exited_swap.flag
    /\ starter' = IF has_exited_swap.previous THEN "returned" ELSE "disabling"
    /\ UNCHANGED <<raw_mode, disabled, lineVars, channelVars,
                   readers, ioloop, dropper, outsidePrompt>>

\* line 471: terminal::disable_raw_mode(), then Ok(()) at line 476
StartDisable ==
    /\ starter = "disabling"
    /\ raw_mode' = FALSE
    /\ disabled' = disabled + 1
    /\ starter' = "returned"
    /\ UNCHANGED <<has_exited, lineVars, channelVars, readers, ioloop, dropper, outsidePrompt>>

\* The Prompt is dropped when its last Arc goes: no call borrows it any more.
\* The ioloop thread holds the State only and may still run.
NoBorrow ==
    /\ starter \in {"idle", "returned"}
    /\ \A reader \in Readers : readers[reader].pc \in {"idle", "returned"}

\* Drop for Prompt, line 705: `if let Ok(true) = terminal::is_raw_mode_enabled()`
DropCheck ==
    /\ dropper = "alive"
    /\ NoBorrow
    /\ dropper' = IF raw_mode THEN "disabling" ELSE "dropped"
    /\ UNCHANGED <<terminalVars, lineVars, channelVars, readers, ioloop, starter, outsidePrompt>>

\* line 706: terminal::disable_raw_mode()
DropDisable ==
    /\ dropper = "disabling"
    /\ raw_mode' = FALSE
    /\ disabled' = disabled + 1
    /\ dropper' = "dropped"
    /\ UNCHANGED <<has_exited, lineVars, channelVars, readers, ioloop, starter, outsidePrompt>>

PromptInit ==
    /\ DagIdle
    /\ CacheFresh(0, EmptyStorage)
    /\ PingFresh(EmptyMap)
    /\ WireIdle
    /\ PromptNew
    /\ HandlersIdle

ReadInputStep(reader) ==
    \/ ReadInputLock(reader)
    \/ ReadInputRegister(reader)
    \/ ReadInputSave(reader)
    \/ ReadInputPrompt(reader)
    \/ ReadInputCanceled(reader)
    \/ ReadInputTake(reader)
    \/ ReadInputReceived(reader)
    \/ ReadInputReturn(reader)

PromptNext ==
    \/ \E reader \in Readers : ReadInputStep(reader)
    \/ CancelReadInput
    \/ IoloopEnable
    \/ KeyChar
    \/ KeyBackspace
    \/ KeyEnter
    \/ IoloopBreak
    \/ IoloopSwap
    \/ IoloopDisable
    \/ IoloopDrain
    \/ StartBegin
    \/ StartTick
    \/ StartUpdatePrompt
    \/ StartBreak
    \/ StartSwap
    \/ StartDisable
    \/ DropCheck
    \/ DropDisable

SpecPrompt == PromptInit /\ [][PromptNext]_vars

(***************************************************************************)
(* A claim about the cached state, checked under SpecCache                 *)
(***************************************************************************)
\* C30: in every reachable CachedState, an asset entry whose dirty bit is set
\* lies in an account whose outer Updatable is dirty too.
C30_DirtyAssetInDirtyAccount ==
    \A pair \in AssetDirty : balances[pair[1]].modified

\* C30's case: an account with a dirty asset entry next to an account that a
\* hydration installed (clean, no dirty entry) after update_balance had run
C30_Witness ==
    /\ AssetDirty # {}
    /\ \E key \in DOMAIN balances :
        /\ ~balances[key].modified
        /\ lastUpdate[<<key, CHOOSE asset \in Assets : TRUE>>] # None

(***************************************************************************)
(* Claims about the prompt, checked under SpecPrompt                       *)
(***************************************************************************)
\* What a read_input call leaves behind when it returns: no registered Sender,
\* the prompt and the user input it found, the read-input lock free
LeftAsFound(reader) ==
    /\ prompt_sender' = None
    /\ prompt' = readers[reader].old_prompt
    /\ user_input' = readers[reader].old_user_input
    /\ read_input_lock' = None

\* C28: a read_input call that was waiting for user input when cancel_read_input
\* was called returns Canceled, with its prompt sender removed, the previous
\* prompt and user input restored and the read-input lock released.
C28_CancelWhileWaiting ==
    [][\A reader \in Readers :
        ReadInputReturn(reader) /\ readers[reader].cancelled
            => readers'[reader].input = Canceled /\ LeftAsFound(reader)]_vars

\* C28, the part that holds: a read_input call whose select! took the cancel
\* message returns Canceled and leaves everything as it found it; the next
\* caller takes the lock.
C28_CancelTakenReturnsCanceled ==
    [][\A reader \in Readers :
        ReadInputReturn(reader) /\ readers[reader].input.kind # "Ok"
            => readers'[reader].input = Canceled /\ LeftAsFound(reader)]_vars

\* C29: in every interleaving of the ioloop's exit, the exit of Prompt::start and
\* the drop of the Prompt, disable_raw_mode is executed at most once.
C29_DisableAtMostOnce == disabled <= 1

\* C29, the part that holds: the two paths that swap has_exited, the ioloop's
\* exit and the exit of Prompt::start, execute disable_raw_mode at most once
\* between them; a second execution is always the drop's.
C29_SwapGuardsTwoPaths == dropper # "dropped" => disabled <= 1

(***************************************************************************)
(* Further claims about update_peer, checked under SpecPing                *)
(***************************************************************************)
\* C31: across any sequence of update_peer calls on one peer, accepted or
\* rejected, the stored pruned_topoheight never goes from present to absent
\* and never decreases.
C31_PrunedMonotonic ==
    [][is_pruned(peerState) =>
          /\ is_pruned(peerState')
          /\ peerState'.pruned_topoheight[1] >= peerState.pruned_topoheight[1]]_vars

\* C31's case: a peer pruned above zero has just refused a Ping that carried
\* no pruned topoheight or a lower one
C31_Witness ==
    /\ pingOp = "update_peer"
    /\ pingResult.line \in {61, 73}
    /\ peerState.pruned_topoheight = Some(MaxTopoheight)
    /\ pingMsg.pruned_topoheight # peerState.pruned_topoheight

(***************************************************************************)
(* Two update_peer calls running concurrently on one Peer (ping.rs 53-127).*)
(* Each setter and getter of the Peer is one step, as is each critical     *)
(* section of the peer-set Mutex; the two calls interleave between steps.  *)
(***************************************************************************)
\* The Pings the two calls are made on: any chain tip, pruned topoheight and
\* cumulative difficulty, with an empty peer list or one other node's address
HandlerPeerLists ==
    {<<>>} \cup {<<addr>> : addr \in Addresses \ {ConnectionAddress, OutgoingAddress}}

HandlerPings == {self \in Pings : self.peer_list \in HandlerPeerLists}

SetHandler(handler, pc) == [handlers EXCEPT ![handler].pc = pc]

ReturnHandler(handler, result) ==
    [handlers EXCEPT ![handler].pc = "returned", ![handler].result = result]

\* the call is made (line 53)
HandlerCall(handler) ==
    /\ handlers[handler].pc = "idle"
    /\ \E self \in HandlerPings :
        handlers' = [handlers EXCEPT ![handler].pc = "line 55", ![handler].ping = self]
    /\ UNCHANGED <<peerState, peers_lock, outsideHandlers>>

\* line 55: peer.set_block_top_hash(..).await
HandlerSetTopHash(handler) ==
    /\ handlers[handler].pc = "line 55"
    /\ peerState' = [peerState EXCEPT !.top_hash = handlers[handler].ping.top_hash]
    /\ handlers' = SetHandler(handler, "line 56")
    /\ UNCHANGED <<peers_lock, outsideHandlers>>

\* line 56: peer.set_topoheight(..)
HandlerSetTopoheight(handler) ==
    /\ handlers[handler].pc = "line 56"
    /\ peerState' = [peerState EXCEPT !.topoheight = handlers[handler].ping.topoheight]
    /\ handlers' = SetHandler(handler, "line 57")
    /\ UNCHANGED <<peers_lock, outsideHandlers>>

\* line 57: peer.set_height(..)
HandlerSetHeight(handler) ==
    /\ handlers[handler].pc = "line 57"
    /\ peerState' = [peerState EXCEPT !.height = handlers[handler].ping.height]
    /\ handlers' = SetHandler(handler, "line 59")
    /\ UNCHANGED <<peers_lock, outsideHandlers>>

\* lines 59-62: peer.is_pruned() is read
HandlerCheckPruned(handler) ==
    /\ handlers[handler].pc = "line 59"
    /\ handlers' = IF ChangesPrunedState(handlers[handler].ping, peerState)
                     THEN ReturnHandler(handler, InvalidProtocolRules(61, <<>>))
                     ELSE SetHandler(handler, "line 64")
    /\ UNCHANGED <<peerState, peers_lock, outsideHandlers>>

\* lines 64-76: peer.get_pruned_topoheight() is read
HandlerCheckBounds(handler) ==
    /\ handlers[handler].pc = "line 64"
    /\ handlers' = IF PrunedAboveTopoheight(handlers[handler].ping)
                     THEN ReturnHandler(handler, InvalidProtocolRules(67, <<>>))
                   ELSE IF PrunedBelowOld(handlers[handler].ping, peerState)
                     THEN ReturnHandler(handler, InvalidProtocolRules(73, <<>>))
                   ELSE SetHandler(handler, "line 78")
    /\ UNCHANGED <<peerState, peers_lock, outsideHandlers>>

\* line 78: peer.set_pruned_topoheight(..)
HandlerSetPruned(handler) ==
    /\ handlers[handler].pc = "line 78"
    /\ peerState' = [peerState EXCEPT
                        !.pruned_topoheight = handlers[handler].ping.pruned_topoheight]
    /\ handlers' = SetHandler(handler, "line 79")
    /\ UNCHANGED <<peers_lock, outsideHandlers>>

\* line 79: peer.set_cumulative_difficulty(..)
HandlerSetDifficulty(handler) ==
    /\ handlers[handler].pc = "line 79"
    /\ peerState' = [peerState EXCEPT
                        !.cumulative_difficulty = handlers[handler].ping.cumulative_difficulty]
    /\ handlers' = SetHandler(handler, "line 82")
    /\ UNCHANGED <<peers_lock, outsideHandlers>>

\* lines 81-89: PeerStateUpdated carries the peer as get_peer_entry reads it
\* now; an empty peer list ends the call (line 126)
HandlerNotifyState(handler) ==
    /\ handlers[handler].pc = "line 82"
    /\ LET events == <<PeerStateUpdated(peerState)>>
       IN  handlers' = IF handlers[handler].ping.peer_list = <<>>
                         THEN ReturnHandler(handler, PingOk(events))
                         ELSE [handlers EXCEPT ![handler].pc = "line 91",
                                               ![handler].result = PingOk(events)]
    /\ UNCHANGED <<peerState, peers_lock, outsideHandlers>>

\* lines 91-111: peer.get_peers().lock().await, then the loop; a rejection
\* returns and drops the guard
HandlerMerge(handler) ==
    /\ handlers[handler].pc = "line 91"
    /\ peers_lock = None
    /\ LET merged == MergePeerList(peerState.peers, peerState, handlers[handler].ping.peer_list)
       IN  /\ peerState' = [peerState EXCEPT !.peers = merged.peers]
           /\ IF merged.ok
                THEN /\ handlers' = SetHandler(handler, "line 114")
                     /\ peers_lock' = Some(handler)
                ELSE /\ handlers' = ReturnHandler(handler,
                            InvalidProtocolRules(merged.line, handlers[handler].result.events))
                     /\ UNCHANGED peers_lock
    /\ UNCHANGED outsideHandlers

\* lines 113-126: PeerPeerListUpdated, the guard dropped, Ok(())
HandlerNotifyList(handler) ==
    /\ handlers[handler].pc = "line 114"
    /\ peers_lock' = None
    /\ handlers' = ReturnHandler(handler,
            PingOk(Append(handlers[handler].result.events,
                          PeerPeerListUpdated(peerState, handlers[handler].ping.peer_list))))
    /\ UNCHANGED <<peerState, outsideHandlers>>

HandlersInit ==
    /\ DagIdle
    /\ CacheFresh(0, EmptyStorage)
    /\ PingFresh(EmptyMap)
    /\ WireIdle
    /\ PromptNew
    /\ HandlersIdle

HandlerStep(handler) ==
    \/ HandlerCall(handler)
    \/ HandlerSetTopHash(handler)
    \/ HandlerSetTopoheight(handler)
    \/ HandlerSetHeight(handler)
    \/ HandlerCheckPruned(handler)
    \/ HandlerCheckBounds(handler)
    \/ HandlerSetPruned(handler)
    \/ HandlerSetDifficulty(handler)
    \/ HandlerNotifyState(handler)
    \/ HandlerMerge(handler)
    \/ HandlerNotifyList(handler)

HandlersNext == \E handler \in Handlers : HandlerStep(handler)

SpecHandlers == HandlersInit /\ [][HandlersNext]_vars

(***************************************************************************)
(* A claim about concurrent update_peer calls, checked under SpecHandlers  *)
(***************************************************************************)
BothReturned == \A handler \in Handlers : handlers[handler].pc = "returned"

\* The peer and the two outcomes are those of the call of `first` followed by
\* the call of `second` on the peer as it was before both
RanInOrder(first, second) ==
    LET one == update_peer(handlers[first].ping, NewPeer(EmptyMap))
        two == update_peer(handlers[second].ping, one.peer)
    IN  /\ peerState = two.peer
        /\ handlers[first].result.kind = one.result.kind
        /\ handlers[second].result.kind = two.result.kind

\* C32: two update_peer calls running concurrently for the same peer leave the
\* peer state (top_hash, topoheight, height, pruned_topoheight,
\* cumulative_difficulty, peer-set) and return the outcomes of the two calls
\* run one after the other in some order.
C32_Serialized ==
    BothReturned => RanInOrder("h1", "h2") \/ RanInOrder("h2", "h1")

\* The list a call merged into the peer-set: none when it returned before line 89
MergedList(handler) ==
    IF handlers[handler].result.line \in {61, 67, 73} THEN <<>>
    ELSE handlers[handler].ping.peer_list

MergedInOrder(first, second) ==
    LET one == MergePeerList(EmptyMap, peerState, MergedList(first))
        two == MergePeerList(one.peers, peerState, MergedList(second))
    IN  peerState.peers = two.peers

\* C32, the part that holds: the peer-set, which is the part the peer-list lock
\* covers, is the one the two merges give when run one after the other.
C32_PeerSetSerialized ==
    BothReturned => MergedInOrder("h1", "h2") \/ MergedInOrder("h2", "h1")

\* The events of one kind among those a call handed to the RPC server
EventsOf(events, kind) == {i \in DOMAIN events : events[i].event = kind}

\* The Ping passes the three pruned checks of lines 59-76 on the peer
PassesPrunedChecks(self, peer) ==
    /\ ~(peer.pruned_topoheight # None /\ self.pruned_topoheight = None)
    /\ ~(self.pruned_topoheight # None /\ self.pruned_topoheight[1] > self.topoheight)
    /\ ~(/\ self.pruned_topoheight # None
         /\ peer.pruned_topoheight # None
         /\ self.pruned_topoheight[1] < peer.pruned_topoheight[1])

\* C33: with a subscribed RPC server, a call that passes the pruned checks
\* emits exactly one PeerStateUpdated, first, carrying the pruned topoheight
\* and cumulative difficulty just stored, and any other call emits none;
\* PeerPeerListUpdated is emitted at most once, only when the received list is
\* not empty and all of it was accepted, after PeerStateUpdated, carrying the
\* full received list; a Ping with an empty list changes no peer-set entry and
\* emits no PeerPeerListUpdated.
C33_EventOrder ==
    [][UpdatePeerStep =>
        LET events == pingResult'.events
            states == EventsOf(events, "PeerStateUpdated")
            lists == EventsOf(events, "PeerPeerListUpdated")
        IN  /\ IF PassesPrunedChecks(pingMsg', peerState)
                 THEN /\ states = {1}
                      /\ events[1].pruned_topoheight = pingMsg'.pruned_topoheight
                      /\ events[1].cumulative_difficulty = pingMsg'.cumulative_difficulty
                      /\ peerState'.pruned_topoheight = pingMsg'.pruned_topoheight
                      /\ peerState'.cumulative_difficulty = pingMsg'.cumulative_difficulty
                 ELSE events = <<>>
            /\ Cardinality(lists) <= 1
            /\ lists # {} =>
                /\ pingMsg'.peer_list # <<>>
                /\ pingResult'.kind = "Ok"
                /\ lists = {2}
                /\ events[2].peerlist = pingMsg'.peer_list
            /\ (pingMsg'.peer_list # <<>> /\ pingResult'.kind = "Ok") => lists # {}
            /\ pingMsg'.peer_list = <<>> =>
                /\ peerState'.peers = peerState.peers
                /\ lists = {}
    ]_vars

\* C33's case: a call that stored a new pruned topoheight and cumulative
\* difficulty and merged a list of two addresses has emitted both events
C33_Witness ==
    /\ pingOp = "update_peer"
    /\ pingResult.kind = "Ok"
    /\ Len(pingResult.events) = 2
    /\ Len(pingMsg.peer_list) = 2
    /\ pingMsg.pruned_topoheight = Some(MaxTopoheight)
    /\ pingMsg.cumulative_difficulty = MaxDifficulty
    /\ pingResult.events[1].cumulative_difficulty = MaxDifficulty
    /\ pingResult.events[2].peerlist = pingMsg.peer_list

\* C37: in every reachable peer state, a present pruned_topoheight is less
\* than or equal to the peer's stored topoheight.
C37_PrunedAtMostTopoheight ==
    is_pruned(peerState) => peerState.pruned_topoheight[1] <= peerState.topoheight

\* C37, the part that holds: the bound holds when the latest call was accepted
C37_PrunedAtMostTopoheightWhenAccepted ==
    (pingOp = "update_peer" /\ pingResult.kind = "Ok" /\ is_pruned(peerState)) =>
        peerState.pruned_topoheight[1] <= peerState.topoheight

\* The call was rejected by the loop over the peer list (lines 98, 106)
RejectedByPeerList(result) == Rejected(result) /\ result.line \in {98, 106}

\* C38: when update_peer rejects a Ping because of an entry of its peer list
\* (the peer's own address, or a duplicate), the peer-set is the same as before
\* the call.
C38_RejectedListLeavesPeerSet ==
    [][(UpdatePeerStep /\ RejectedByPeerList(pingResult')) =>
            peerState'.peers = peerState.peers]_vars

\* C38, the part that holds: the peer-set is unchanged when the first entry of
\* the list is the refused one, and no entry is ever removed
C38_RejectedAtFirstEntryLeavesPeerSet ==
    [][(UpdatePeerStep /\ RejectedByPeerList(pingResult')) =>
            /\ DOMAIN peerState.peers \subseteq DOMAIN peerState'.peers
            /\ (\/ IsOwnAddress(peerState, pingMsg'.peer_list[1])
                \/ /\ pingMsg'.peer_list[1] \in DOMAIN peerState.peers
                   /\ peerState.peers[pingMsg'.peer_list[1]] # "Out") =>
                    peerState'.peers = peerState.peers]_vars

(***************************************************************************)
(* Further claims about the prompt, checked under SpecPrompt               *)
(***************************************************************************)
\* A read_input call between taking the read-input lock and returning
ActiveReader(reader) == readers[reader].pc \notin {"idle", "returned"}

\* C34: at most one read_input call is active at a time, the one holding the
\* read-input lock; while it holds the lock no other call registers a sender,
\* changes the prompt or clears the user input, and a registered prompt sender
\* is never overwritten.
C34_OneReaderAtATime ==
    /\ [](\A reader \in Readers : ActiveReader(reader) <=> read_input_lock = Some(reader))
    /\ [][\A reader \in Readers :
            /\ (ReadInputRegister(reader) \/ ReadInputSave(reader) \/ ReadInputPrompt(reader))
                   => read_input_lock = Some(reader)
            /\ ReadInputRegister(reader) => prompt_sender = None]_vars

\* C34's case: one call is registered and waiting while the other caller has
\* not got the lock
C34_Witness ==
    \E reader \in Readers, other \in Readers :
        /\ reader # other
        /\ readers[reader].pc = "waiting"
        /\ prompt_sender = Some(reader)
        /\ read_input_lock = Some(reader)
        /\ readers[other].pc = "idle"
        /\ dropper = "alive"
        /\ ~has_exited

\* The prompt under fair scheduling: a read_input call that can take its next
\* step takes it (the tokio task is polled), and so do the ioloop thread on its
\* exit path and Prompt::start on its own.  Nothing obliges the user to type,
\* anybody to call read_input or cancel_read_input, or the Prompt to be dropped.
ReadInputProgress(reader) ==
    \/ ReadInputRegister(reader)
    \/ ReadInputSave(reader)
    \/ ReadInputPrompt(reader)
    \/ ReadInputCanceled(reader)
    \/ ReadInputTake(reader)
    \/ ReadInputReceived(reader)
    \/ ReadInputReturn(reader)

SpecPromptFair ==
    /\ PromptInit
    /\ [][PromptNext]_vars
    /\ \A reader \in Readers : WF_vars(ReadInputProgress(reader))
    /\ WF_vars(IoloopSwap \/ IoloopDisable \/ IoloopDrain)
    /\ WF_vars(StartSwap \/ StartDisable)

\* C35: once the ioloop thread has stopped, every read_input call eventually
\* returns, without a cancel: none waits forever on its oneshot channel.
C35_ReadersReturnAfterExit ==
    \A reader \in Readers :
        (ioloop = "stopped" /\ ActiveReader(reader) /\ read_input_channel = 0)
            ~> (~ActiveReader(reader) \/ read_input_channel > 0)

\* C35, the part that holds: a call registered before the ioloop drains its
\* exit path is sent the empty line, and a call that takes the lock after
\* has_exited was set returns NotRunning: a stopped ioloop leaves a registered
\* Sender behind only if the call registered after the drain.
C35_CallsAtExitAreWoken ==
    [][/\ IoloopDrain => prompt_sender' = None
       /\ \A reader \in Readers :
            /\ (IoloopDrain /\ prompt_sender = Some(reader) /\ oneshot[reader].state = "open")
                   => oneshot'[reader] = [state |-> "sent", value |-> <<>>]
            /\ (ReadInputLock(reader) /\ has_exited) => readers'[reader] = Returned(NotRunning)
      ]_vars

\* C36: a cancel_read_input issued while no read_input call is pending has no
\* effect on later calls: a call's select! takes a cancel message (and the call
\* returns Canceled) only if a cancel was issued during that call.
C36_CanceledOnlyIfIssuedDuringCall ==
    [][\A reader \in Readers : ReadInputCanceled(reader) => readers[reader].issued]_vars

C39_HydrationKeepsOtherAccounts ==
    [][\A accounts \in SUBSET Accounts :
        HydratedOk(accounts) =>
            \A key \in DOMAIN balances :
                key \notin accounts =>
                    /\ key \in DOMAIN balances'
                    /\ balances'[key] = balances[key]
    ]_vars

(***************************************************************************)
(* A further claim about blockdag.rs, checked under SpecDag                *)
(***************************************************************************)
\* C40: for every non-empty tips list and every u64 height assignment,
\* including a tip at the maximum u64 height, calculate_height_at_tips returns
\* a value strictly greater than the height of every tip.
C40_HeightAboveEveryTip ==
    (dagOp = "calculate_height_at_tips" /\ AllLookupsSucceed /\ dagTips # <<>>) =>
        /\ dagResult.kind = "Ok"
        /\ \A h \in Range(dagTips) : dagResult.value > dagProvider[h].value

\* What the code does give: a returned value is above every tip unless the
\* increment wrapped, which takes a tip at u64::MAX and overflow checks off
C40_HeightAboveEveryTipBelowMax ==
    (dagOp = "calculate_height_at_tips" /\ AllLookupsSucceed /\ dagTips # <<>>) =>
        \/ /\ dagResult.kind = "Ok"
           /\ \A h \in Range(dagTips) : dagResult.value > dagProvider[h].value
        \/ /\ \E h \in Range(dagTips) : dagProvider[h].value = MaxU64
           /\ dagResult.kind = "Panic" \/ (dagResult.kind = "Ok" /\ dagResult.value = 0)

====
